---- MODULE Spec2Model ----
(***************************************************************************)
(* A model of the media core of os-nvr:                                    *)
(*   - pathManager (package video): the registry of named paths, its       *)
(*     mutex, and the removal goroutine AddPath starts per registration;   *)
(*   - process (package ffmpeg): the supervisor of one child process;      *)
(*   - ffmpegConfig and doodsClient (package doods): the restart loop of   *)
(*     the frame encoder, and the detector client with its config, its     *)
(*     frames, responses and events;                                       *)
(*   - generateFFmpegArgs (package doods): the scaling of the input;       *)
(*   - getKeyframeDuration (package ffmpeg): the parsing of the playlist;  *)
(*   - ServerStream (package gortsplib): the readers and the fan-out of    *)
(*     RTP packets;                                                        *)
(*   - hookList (package nvr): the registry of the monitor hooks;          *)
(*   - main, sub and start (package doods): the start of the bridge of a   *)
(*     monitor from its config;                                            *)
(*   - the user store of package auth, as its test uses it.                *)
(* Each component has its own specification (SpecPM, SpecProc, SpecEnc,    *)
(* SpecClient, SpecArgs, SpecKf, SpecStream with one writer and            *)
(* SpecWriters with two, SpecHooks, SpecBridge, SpecUsers); the variables  *)
(* of the other components keep their initial value.                       *)
(***************************************************************************)
EXTENDS Integers, Sequences, FiniteSets, TLC

(***************************************************************************)
(* Bounds of the model.                                                    *)
(***************************************************************************)
\* goroutines that call into the path manager (monitors, rtsp sessions)
NumCallers == 2
\* contexts that AddPath calls may be given
NumCtxs == 2

Names == {"mypath", "p"}
Callers == 1..NumCallers
Ctxs == 1..NumCtxs

\* the nil values of the model
NoName == ""
NoErr == ""
NoSession == 0
NoCtx == 0
NoStream == <<NoName, NoSession>>

(***************************************************************************)
(* Values of the program.                                                  *)
(***************************************************************************)
ErrPathAlreadyExist == "path already exist"
ErrPathNotExist == "path not exist"
ErrPathNoOnePublishing == "no one is publishing"
ErrPathBusy == "path has a publisher"
ErrInvalidConf == "invalid path conf"
ErrOther == "stream error"

StatusOK == 200
StatusBadRequest == 400
StatusNotFound == 404
\* the status field of the operations that return no rtsp response
NoStatus == 0

OpKinds ==
    {"AddPath", "pathExist", "onDescribe", "publisherAdd", "readerAdd", "pathLogfByName"}

VARIABLES
    mu,         \* pathManager.mu: <<"free",0,"">>, <<"caller",t,"">> or <<"rm",0,name>>
    pathConfs,  \* pathManager.pathConfs: the names that have a config
    paths,      \* pathManager.paths: name -> path
    ctxDone,    \* the contexts that have been cancelled
    rms,        \* the removal goroutines started by AddPath
    pc,         \* each caller's position in its call
    op,         \* each caller's current (or last) call
    ret,        \* what that call returned
    role,       \* each rtsp session's binding: "none", "publisher", "reader"
    spath       \* the path name the session is bound to

varsPM == <<mu, pathConfs, paths, ctxDone, rms, pc, op, ret, role, spath>>

VARIABLES
    timeout,    \* process.timeout, in milliseconds
    startPc,    \* process.Start: "new", "wait" (in cmd.Wait), "ret" (returned)
    startRet,   \* the error Start returned
    launched,   \* whether cmd.Start() succeeded
    doneClosed, \* whether p.done is closed
    watcher,    \* the goroutine of Start: "none", "select", "stop", "kill", "end"
    pctxDone,   \* whether the context given to Start is cancelled
    child,      \* the child process: "none", "running", "exited"
    status,     \* the child's wait status once it has exited
    delivered,  \* the signals delivered to the running child
    signals,    \* the signals sent to the child, in order
    elapsed,    \* milliseconds since stop() armed its timer, up to timeout
    exitInTime, \* whether the child exited before that timer expired
    stopSteps   \* steps taken since the cancel while the child was running

varsProc ==
    <<timeout, startPc, startRet, launched, doneClosed, watcher, pctxDone, child,
      status, delivered, signals, elapsed, exitInTime, stopSteps>>

VARIABLES
    fctxDone,   \* whether the context given to ffmpegConfig.start is cancelled
    fpc,        \* ffmpegConfig.start: "check", "run", "proc", "sleep", "stopped"
    runs,       \* what the calls of runFFmpeg returned, in order
    slept,      \* milliseconds slept since the last crash
    wg,         \* addon.wg: the goroutines not yet done
    ctx2s       \* per call of runFFmpeg that got to it: whether ctx2 is cancelled

varsEnc == <<fctxDone, fpc, runs, slept, wg, ctx2s>>

VARIABLES
    cctxDone,      \* whether the context given to startClient is cancelled
    cpc,           \* the client goroutine: "new", "noconf", "check", "connect",
                   \* "frames", "send", "recv", "parse", "post", "close", "sleep",
                   \* "stopped"
    rawThresholds, \* m.Config["doodsThresholds"], unmarshalled
    conf,          \* the doodsConfig parseConfig returned
    frames,        \* the frames read from the encoder's stdout
    readAt,        \* the wall-clock time at which the last frame was read
    frameT,        \* t of readFrames: the time handed to sendFrame
    resp,          \* the detections of the last response of the detector
    trigger,       \* the Event being sent on a.trigger, NoEvent when none is
    posted,        \* the Events sent on a.trigger for the last response
    cslept,        \* milliseconds slept since runClient returned an error
    cret,          \* what the last call of runClient returned
    cevent,        \* what the last step of the client met
    cruns          \* the calls of runClient

varsClient ==
    <<cctxDone, cpc, rawThresholds, conf, frames, readAt, frameT, resp, trigger,
      posted, cslept, cret, cevent, cruns>>

VARIABLES
    apc,           \* generateFFmpegArgs: "new", "addon" (newAddon done), "done"
    outputWidth,   \* addon.outputWidth: the width of the detector's input
    outputHeight,  \* addon.outputHeight
    inputSize,     \* the size of the monitor's input, <<width, height>>
    ffargs         \* what generateFFmpegArgs returned

varsArgs == <<apc, outputWidth, outputHeight, inputSize, ffargs>>

VARIABLES
    kpc,           \* getKeyframeDuration: "new", "written", "done"
    kfInput,       \* what was written to the playlist: its layout and the line
                   \* before its last
    playlist,      \* the text of the file at hlsPath, a sequence of characters
    kfResult       \* what getKeyframeDuration returned

varsKf == <<kpc, kfInput, playlist, kfResult>>

VARIABLES
    readers,            \* ServerStream.readers: the attached sessions
    readersUnicast,     \* ServerStream.readersUnicast: the active sessions
    stmutex,            \* ServerStream.mutex: the read locks held (0 when free)
    stlife,             \* "open"; "closed": the maps are nil; "panic"
    ssClosed,           \* per session, the calls of its Close
    lastSequenceNumber, \* per track, serverStreamTrack.lastSequenceNumber
    lastTimeRTP,        \* per track, serverStreamTrack.lastTimeRTP
    lastTimeNTP,        \* per track, serverStreamTrack.lastTimeNTP
    lastSSRC,           \* per track, serverStreamTrack.lastSSRC
    wpc,                \* per writer, its position in WritePacketRTP
    wpkt,               \* per writer, the packet of its call
    todo,               \* per writer, the sessions its range loop has yet to visit
    failed,             \* per writer, the sessions whose writePacketRTP failed
    written,            \* per track, the sequence numbers written to the stream
    received            \* per session and track, the sequence numbers received

\* ServerStream.stTracks
stTracks == <<lastSequenceNumber, lastTimeRTP, lastTimeNTP, lastSSRC>>

\* the reader sets and what Close does to them
stReaders == <<readers, readersUnicast, stlife, ssClosed>>

\* the calls of WritePacketRTP
stCalls == <<wpc, wpkt, todo, failed>>

varsStream == <<stReaders, stmutex, stTracks, stCalls, written, received>>

VARIABLES
    monitorStart,       \* hookList.monitorStart
    monitorMainProcess, \* hookList.monitorMainProcess
    monitorSubProcess,  \* hookList.monitorSubProcess
    hkind,              \* the hook function running: "none", "start", "main", "sub"
    henabled,           \* the hooks the monitor's config enables
    hsnap,              \* the slice the range loop of the call was begun with
    hrest,              \* what the range loop has yet to visit
    hrunning,           \* the hook that is running, NoHook when none is
    hran,               \* the hooks that have returned in this call, in order
    hargs               \* *args of the call: the fragments appended to it

varsHooks ==
    <<monitorStart, monitorMainProcess, monitorSubProcess, hkind, henabled, hsnap,
      hrest, hrunning, hran, hargs>>

VARIABLES
    bconf,      \* per monitor, m.Config as its hooks read it
    bpc,        \* per monitor and hook, the position of the call of the hook
    bargs,      \* per monitor and hook, the genArgs fragments appended to *args
    berr,       \* per monitor and hook, the error the hook logged, "" for none
    bwg,        \* per monitor, the a.wg.Add(1) done by start
    bgo,        \* per monitor, the ffmpegConfig.start goroutines launched
    bcrashed    \* a hook has panicked, the process has exited

varsBridge == <<bconf, bpc, bargs, berr, bwg, bgo, bcrashed>>

VARIABLES
    accounts,   \* the accounts of the authenticator, by id
    usersFile,  \* the accounts in users.json
    apath,      \* the path of the authenticator, "" when it has been cleared
    ucalls,     \* the calls of UserSet and UserDelete made
    ulast       \* the last call: its name, its argument and its error

varsUsers == <<accounts, usersFile, apath, ucalls, ulast>>

vars ==
    <<varsPM, varsProc, varsEnc, varsClient, varsArgs, varsKf, varsStream,
      varsHooks, varsBridge, varsUsers>>

\* what a step of one component leaves alone: the other components
othersPM ==
    <<varsProc, varsEnc, varsClient, varsArgs, varsKf, varsStream,
      varsHooks, varsBridge, varsUsers>>
othersProc ==
    <<varsPM, varsEnc, varsClient, varsArgs, varsKf, varsStream, varsHooks,
      varsBridge, varsUsers>>
othersEnc ==
    <<varsPM, varsProc, varsClient, varsArgs, varsKf, varsStream,
      varsHooks, varsBridge, varsUsers>>
othersClient ==
    <<varsPM, varsProc, varsEnc, varsArgs, varsKf, varsStream, varsHooks,
      varsBridge, varsUsers>>
othersArgs ==
    <<varsPM, varsProc, varsEnc, varsClient, varsKf, varsStream, varsHooks,
      varsBridge, varsUsers>>
othersKf ==
    <<varsPM, varsProc, varsEnc, varsClient, varsArgs, varsStream,
      varsHooks, varsBridge, varsUsers>>
othersStream ==
    <<varsPM, varsProc, varsEnc, varsClient, varsArgs, varsKf, varsHooks,
      varsBridge, varsUsers>>
othersHooks ==
    <<varsPM, varsProc, varsEnc, varsClient, varsArgs, varsKf, varsStream,
      varsBridge, varsUsers>>
othersBridge ==
    <<varsPM, varsProc, varsEnc, varsClient, varsArgs, varsKf, varsStream,
      varsHooks, varsUsers>>
othersUsers ==
    <<varsPM, varsProc, varsEnc, varsClient, varsArgs, varsKf, varsStream,
      varsHooks, varsBridge>>

MuFree == <<"free", 0, NoName>>
MuCaller(t) == <<"caller", t, NoName>>
MuRemove(n) == <<"rm", 0, n>>

NoOp == [kind |-> "none", name |-> NoName, ctx |-> NoCtx, confOk |-> TRUE, cctx |-> NoCtx]
NoRet ==
    [status |-> NoStatus, ok |-> FALSE, path |-> NoName, stream |-> NoStream,
     err |-> NoErr]

(***************************************************************************)
(* path: the object behind pathManager.paths[name].  Its methods are       *)
(* called by the manager under the manager's mutex.                        *)
(***************************************************************************)
newPath == [source |-> NoSession, readers |-> {}, closed |-> 0]

\* the stream exported by the path's source
PathStream(n, path) == <<n, path.source>>

\* path.streamGet: the outcomes onDescribe tells apart
PathStreamGet(n, path) ==
    IF path.source = NoSession
    THEN {[stream |-> NoStream, err |-> ErrPathNoOnePublishing]}
    ELSE {[stream |-> PathStream(n, path), err |-> NoErr],
          [stream |-> NoStream, err |-> ErrOther]}

\* path.publisherAdd: the error, or NoErr
PathPublisherAddErr(path) ==
    IF path.source # NoSession THEN ErrPathBusy ELSE NoErr

\* path.readerAdd: the error, or NoErr
PathReaderAddErr(path) ==
    IF path.source = NoSession THEN ErrPathNoOnePublishing ELSE NoErr

\* path.close: the publisher and the readers are terminated
PathClosed(path) ==
    [source |-> NoSession, readers |-> {}, closed |-> path.closed + 1]

\* the sessions path.close terminates
PathSessions(path) ==
    path.readers \cup (IF path.source = NoSession THEN {} ELSE {path.source})

(***************************************************************************)
(* Map helpers.                                                            *)
(***************************************************************************)
MapPutDropped(m, k, v) == m

MapPut(m, k, v) == [x \in DOMAIN m \cup {k} |-> IF x = k THEN v ELSE m[x]]
MapDelete(m, k) == [x \in DOMAIN m \ {k} |-> m[x]]

(***************************************************************************)
(* The initial state: newPathManager, no context cancelled, no call made.  *)
(***************************************************************************)
InitPM ==
    /\ mu = MuFree
    /\ pathConfs = {}
    /\ paths = <<>>
    /\ ctxDone = {}
    /\ rms = {}
    /\ pc = [t \in Callers |-> "idle"]
    /\ op = [t \in Callers |-> NoOp]
    /\ ret = [t \in Callers |-> NoRet]
    /\ role = [t \in Callers |-> "none"]
    /\ spath = [t \in Callers |-> NoName]

(***************************************************************************)
(* process (package ffmpeg): values.                                       *)
(***************************************************************************)
\* NewProcess: timeout: 1000 * time.Millisecond
DefaultTimeout == 1000
\* the exit status Start treats as a normal exit
NormalExit == 255
\* the granularity of the model's clock, in milliseconds
TickMs == 250

\* the durations SetTimeout is called with
Timeouts == {TickMs, 2 * DefaultTimeout}
\* the exit codes of a child that exits by itself
ExitCodes == {0, 1, NormalExit}

NilErr == [kind |-> "nil", code |-> 0, sig |-> ""]
LaunchErr == [kind |-> "launch", code |-> 0, sig |-> ""]
Exited(code) == [kind |-> "exit", code |-> code, sig |-> ""]
Signaled(sig) == [kind |-> "signal", code |-> -1, sig |-> sig]
NoWaitStatus == [kind |-> "none", code |-> 0, sig |-> ""]

\* NewProcess(cmd), Start not yet called
InitProc ==
    /\ timeout = DefaultTimeout
    /\ startPc = "new"
    /\ startRet = NilErr
    /\ launched = FALSE
    /\ doneClosed = FALSE
    /\ watcher = "none"
    /\ pctxDone = FALSE
    /\ child = "none"
    /\ status = NoWaitStatus
    /\ delivered = {}
    /\ signals = <<>>
    /\ elapsed = 0
    /\ exitInTime = FALSE
    /\ stopSteps = 0

(***************************************************************************)
(* ffmpegConfig (package doods): the restart loop of the encoder that      *)
(* feeds the detector.                                                     *)
(***************************************************************************)
\* the calls of runFFmpeg one run of the loop is followed through
MaxRuns == 3
\* time.Sleep(1 * time.Second) after a crash, in milliseconds
CrashSleep == 1000

\* what runFFmpeg returns: nil, or an error
RunResults == {"nil", "crash"}

\* start(ctx, m) has done a.wg.Add(1) and go a.newFFmpeg(ffmpegArgs).start(ctx)
InitEnc ==
    /\ fctxDone = FALSE
    /\ fpc = "check"
    /\ runs = <<>>
    /\ slept = 0
    /\ wg = 1
    /\ ctx2s = <<>>

(***************************************************************************)
(* doodsClient (package doods): the detection client.  Scores and          *)
(* thresholds are in hundredths, times and durations in milliseconds.      *)
(***************************************************************************)
\* the frames one run of the client is followed through
MaxFrames == 2
\* the calls of runClient one run of the client is followed through
MaxClientRuns == 2
\* the detections of a response of the detector
MaxDetections == 2
\* time.Sleep(1 * time.Second) after runClient returned an error
ClientSleep == 1000
\* the threshold that parseConfig takes as "label disabled"
Disabled == -1

Labels == {"person", "car", "dog"}
ConfigLabels == {"person", "car"}
Scores == {30, 50}
ThresholdValues == {Disabled, 50}
Offsets == {0, 500}
Durations == {200, 1000}
RecSeconds == {5}
ReadTimes == {1000, 1500}

Detection(l, sc) == [label |-> l, score |-> sc]
\* the response and the thresholds of the project's example
ExampleResponse ==
    <<Detection("person", 70), Detection("person", 30), Detection("car", 90),
      Detection("dog", 99)>>
ExampleThresholds == [l \in ConfigLabels |-> IF l = "person" THEN 50 ELSE Disabled]

ThresholdMaps == UNION {[S -> ThresholdValues] : S \in SUBSET ConfigLabels}
Responses ==
    UNION {[1..n -> [label : Labels, score : Scores]] : n \in 0..MaxDetections}
        \cup {ExampleResponse}

NoThresholds == [l \in {} |-> 0]
NoConf == [thresholds |-> NoThresholds, timestampOffset |-> 0, duration |-> 0,
           recDuration |-> 0]
NoEvent == [time |-> 0, detections |-> <<>>, duration |-> 0, recDuration |-> 0]

\* start(ctx, m) is about to call parseConfig
InitClient ==
    /\ cctxDone = FALSE
    /\ cpc = "new"
    /\ rawThresholds = NoThresholds
    /\ conf = NoConf
    /\ frames = 0
    /\ readAt = 0
    /\ frameT = 0
    /\ resp = <<>>
    /\ trigger = NoEvent
    /\ posted = 0
    /\ cslept = 0
    /\ cret = "none"
    /\ cevent = "none"
    /\ cruns = 0




(***************************************************************************)
(* addon.generateFFmpegArgs (package doods).  A multiplier is a fraction,  *)
(* kept as numerator and denominator.                                      *)
(***************************************************************************)
\* the largest extent of the monitor's input, in pixels
MaxInput == 6
\* the largest extent of the detector's input, in pixels
MaxOutput == 3

InputExtents == 1..MaxInput
OutputExtents == 1..MaxOutput

Fraction(n, d) == [num |-> n, den |-> d]
One == Fraction(1, 1)
NoArgs ==
    [scale |-> <<0, 0>>, pad |-> <<0, 0, 0, 0>>, xMultiplier |-> Fraction(0, 1),
     yMultiplier |-> Fraction(0, 1), err |-> NoErr]

InitArgs ==
    /\ apc = "new"
    /\ outputWidth = 0
    /\ outputHeight = 0
    /\ inputSize = <<0, 0>>
    /\ ffargs = NoArgs


(***************************************************************************)
(* getKeyframeDuration (package ffmpeg).  A text is a sequence of          *)
(* characters; durations are in milliseconds.                              *)
(***************************************************************************)
\* the largest number of whole seconds on an #EXTINF line
MaxSeconds == 12

\* the fractions of a second on an #EXTINF line, in microseconds
Fractions == {0, 250000, 500000}
\* the playlists: with and without header lines, of one line, empty
Layouts == {"full", "bare", "single", "empty"}
\* the lines before the last: #EXTINF lines, and lines that are none
LineKinds == {"extinf", "short", "letters"}

NoKfInput == [layout |-> "empty", kind |-> "short", sec |-> 0, frac |-> 0]
NoKfResult == [duration |-> 0, err |-> NoErr]

InitKf ==
    /\ kpc = "new"
    /\ kfInput = NoKfInput
    /\ playlist = <<>>
    /\ kfResult = NoKfResult


(***************************************************************************)
(* ServerStream (package gortsplib).                                       *)
(***************************************************************************)
\* the reader sessions
NumReaders == 2
\* the packets written to the stream
MaxPackets == 2

Readers == 1..NumReaders
\* the ids of the tracks of the stream
Tracks == {0, 1}
\* the goroutines that call WritePacketRTP
Publisher == "publisher"
Writers == {Publisher, "other"}

\* the packet a writer hands to WritePacketRTP: the header fields the
\* stream reads
Packet(trackID, seq) ==
    [track |-> trackID, seq |-> seq, ts |-> 3000 * seq, ssrc |-> 11 + trackID]

NoPacket == [track |-> 0, seq |-> 0, ts |-> 0, ssrc |-> 0]

\* time.Now().Unix() of the calls
TimeNowUnix == 1

\* NewServerStream(tracks)
InitStream ==
    /\ readers = {}
    /\ readersUnicast = {}
    /\ stmutex = 0
    /\ stlife = "open"
    /\ ssClosed = [r \in Readers |-> 0]
    /\ lastSequenceNumber = [t \in Tracks |-> 0]
    /\ lastTimeRTP = [t \in Tracks |-> 0]
    /\ lastTimeNTP = [t \in Tracks |-> 0]
    /\ lastSSRC = [t \in Tracks |-> 0]
    /\ wpc = [w \in Writers |-> "idle"]
    /\ wpkt = [w \in Writers |-> NoPacket]
    /\ todo = [w \in Writers |-> {}]
    /\ failed = [w \in Writers |-> {}]
    /\ written = [t \in Tracks |-> <<>>]
    /\ received = [r \in Readers |-> [t \in Tracks |-> <<>>]]


(***************************************************************************)
(* hookList (package nvr): the registry of the monitor hooks.              *)
(***************************************************************************)
\* the hook functions of the addons
NumHooks == 2
\* the registrations made
MaxRegistered == 3

HookIds == 1..NumHooks
NoHook == 0
HookKinds == {"start", "main", "sub"}

\* var hooks = &hookList{}
InitHooks ==
    /\ monitorStart = <<>>
    /\ monitorMainProcess = <<>>
    /\ monitorSubProcess = <<>>
    /\ hkind = "none"
    /\ henabled = {}
    /\ hsnap = <<>>
    /\ hrest = <<>>
    /\ hrunning = NoHook
    /\ hran = <<>>
    /\ hargs = <<>>


(***************************************************************************)
(* The hooks main and sub of package doods and start.  A string of the     *)
(* config that is parsed is a sequence of characters.                      *)
(***************************************************************************)
Monitors == {"m1", "m2"}
ProcessHooks == {"main", "sub"}
NoConfig == [doodsEnable |-> "unset"]

\* a config that starts the bridge; the detector's input is 4 by 4
GoodConfig ==
    [doodsEnable |-> "true", subInputEnabled |-> FALSE,
     doodsDetectorName |-> "default", doodsThresholds |-> "{}",
     doodsFeedRate |-> <<"1">>, doodsDuration |-> <<"1">>,
     timestampOffset |-> <<"0">>,
     sizeMain |-> <<"8", "x", "6">>, sizeSub |-> <<"8", "x", "6">>,
     detector |-> [width |-> 4, height |-> 4]]

\* the size strings: WxH, too narrow, too low, no "x", no width, no height, ""
Sizes ==
    {<<"8", "x", "6">>, <<"2", "x", "6">>, <<"8", "x", "2">>, <<"8">>,
     <<"a", "x", "6">>, <<"8", "x", "a">>, <<>>}

\* the configs with at most one value that start cannot use
OneFault ==
    {GoodConfig,
     [GoodConfig EXCEPT !.doodsDetectorName = "none"],
     [GoodConfig EXCEPT !.doodsThresholds = "{"],
     [GoodConfig EXCEPT !.doodsFeedRate = <<"a">>],
     [GoodConfig EXCEPT !.doodsDuration = <<>>],
     [GoodConfig EXCEPT !.timestampOffset = <<"a">>]}
    \cup {[GoodConfig EXCEPT !.sizeMain = s, !.sizeSub = s] : s \in Sizes}

Configs ==
    {[c EXCEPT !.doodsEnable = e, !.subInputEnabled = b] :
        c \in OneFault, e \in {"true", "false"}, b \in BOOLEAN}

\* no hook has been called
InitBridge ==
    /\ bconf = [m \in Monitors |-> NoConfig]
    /\ bpc = [m \in Monitors |-> [h \in ProcessHooks |-> "idle"]]
    /\ bargs = [m \in Monitors |-> [h \in ProcessHooks |-> 0]]
    /\ berr = [m \in Monitors |-> [h \in ProcessHooks |-> ""]]
    /\ bwg = [m \in Monitors |-> 0]
    /\ bgo = [m \in Monitors |-> 0]
    /\ bcrashed = FALSE


(***************************************************************************)
(* The user store of package auth, as TestBasicAuthenticator uses it.      *)
(***************************************************************************)
MaxUserCalls == 3

UserIds == {"", "1", "2", "10"}
Usernames == {"", "admin", "user"}
RawPasswords == {"", "pass"}

\* the Account values given to UserSet
Accounts ==
    [id : UserIds, username : Usernames, rawPassword : RawPasswords,
     isAdmin : BOOLEAN]

\* workingUsers of the test
WorkingUsers ==
    [i \in {"1", "2"} |->
        IF i = "1"
        THEN [id |-> "1", username |-> "admin", password |-> "pass1",
              isAdmin |-> TRUE]
        ELSE [id |-> "2", username |-> "user", password |-> "pass2",
              isAdmin |-> FALSE]]

NoCall == [op |-> "none", err |-> ""]

\* writeWorkingUsers() and NewBasicAuthenticator(tempDir, logger)
InitUsers ==
    /\ accounts = WorkingUsers
    /\ usersFile = WorkingUsers
    /\ apath = "users.json"
    /\ ucalls = 0
    /\ ulast = NoCall


(***************************************************************************)
(* Registrations.  AddPath starts one removal goroutine per successful     *)
(* call; the registration is live until that goroutine has finished.  The  *)
(* finished goroutine of a name's last registration is kept, as a record   *)
(* of the removal, until the name is registered again.                     *)
(***************************************************************************)
RemovalNoWait(n, c) == [name |-> n, ctx |-> c, pc |-> "lock", closes |-> 0]

Removal(n, c) == [name |-> n, ctx |-> c, pc |-> "wait", closes |-> 0]

LiveRemovals(n) == {g \in rms : g.name = n /\ g.pc # "done"}

Live(n) == LiveRemovals(n) # {}

\* the context of n's live registration when it is already cancelled
CancelledCtxOf(n) ==
    IF \E g \in LiveRemovals(n) : g.ctx \in ctxDone
    THEN (CHOOSE g \in LiveRemovals(n) : g.ctx \in ctxDone).ctx
    ELSE NoCtx

(***************************************************************************)
(* A caller starts a call: the operation and its arguments are inputs.     *)
(* An rtsp session calls publisherAdd and readerAdd for itself, and only   *)
(* while it is bound to no path.                                           *)
(***************************************************************************)
Ops(t) ==
    [kind : {"AddPath"}, name : Names, ctx : Ctxs, confOk : BOOLEAN, cctx : {NoCtx}]
    \cup {[kind |-> "pathExist", name |-> n, ctx |-> NoCtx, confOk |-> TRUE,
           cctx |-> CancelledCtxOf(n)] : n \in Names}
    \cup [kind : {"onDescribe", "pathLogfByName"}, name : Names, ctx : {NoCtx},
          confOk : {TRUE}, cctx : {NoCtx}]
    \cup (IF role[t] = "none"
          THEN [kind : {"publisherAdd", "readerAdd"}, name : Names, ctx : {NoCtx},
                confOk : {TRUE}, cctx : {NoCtx}]
          ELSE {})

\* pm.mu.Lock()
MuAvailableAlways == TRUE

MuAvailable == mu = MuFree

\* the call, up to and including pm.mu.Lock(): a goroutine that waits for the
\* mutex is one that has not taken this step yet
Call(t) ==
    /\ pc[t] = "idle"
    /\ MuAvailable
    /\ mu' = MuCaller(t)
    /\ \E o \in Ops(t) : op' = [op EXCEPT ![t] = o]
    /\ pc' = [pc EXCEPT ![t] = "body"]
    /\ UNCHANGED <<othersPM, pathConfs, paths, ctxDone, rms, ret, role, spath>>

\* defer pm.mu.Unlock(), and the return to the caller
Unlock(t) ==
    /\ pc[t] = "unlock"
    /\ mu' = MuFree
    /\ pc' = [pc EXCEPT ![t] = "idle"]
    /\ op' = [op EXCEPT ![t] = NoOp]
    /\ ret' = [ret EXCEPT ![t] = NoRet]
    /\ UNCHANGED <<othersPM, pathConfs, paths, ctxDone, rms, role, spath>>

Body(t, kind) == pc[t] = "body" /\ op[t].kind = kind

Return(t, r) ==
    /\ ret' = [ret EXCEPT ![t] = r]
    /\ pc' = [pc EXCEPT ![t] = "unlock"]

(***************************************************************************)
(* AddPath                                                                 *)
(***************************************************************************)
\* the error AddPath returns, or NoErr
AddPathErrNoExistCheck(n, confOk) ==
    IF ~confOk THEN ErrInvalidConf ELSE NoErr

AddPathErr(n, confOk) ==
    IF ~confOk THEN ErrInvalidConf
    ELSE IF n \in pathConfs THEN ErrPathAlreadyExist
    ELSE NoErr

AddPath(t) ==
    /\ Body(t, "AddPath")
    /\ LET n == op[t].name
           err == AddPathErr(n, op[t].confOk)
       IN  IF err # NoErr
           THEN /\ Return(t, [NoRet EXCEPT !.err = err])
                /\ UNCHANGED <<pathConfs, paths, rms>>
           ELSE /\ pathConfs' = pathConfs \cup {n}
                /\ paths' = MapPut(paths, n, newPath)
                /\ rms' = {g \in rms : g.name # n \/ g.pc # "done"}
                          \cup {Removal(n, op[t].ctx)}
                /\ Return(t, [NoRet EXCEPT !.ok = TRUE, !.path = n])
    /\ UNCHANGED <<othersPM, mu, ctxDone, op, role, spath>>

\* cancel() of a context handed to AddPath
Cancel(c) ==
    /\ c \notin ctxDone
    /\ ctxDone' = ctxDone \cup {c}
    /\ UNCHANGED <<othersPM, mu, pathConfs, paths, rms, pc, op, ret, role, spath>>

(***************************************************************************)
(* The removal goroutine of AddPath, one step per statement.               *)
(***************************************************************************)
Step(g, to) == rms' = (rms \ {g}) \cup {[g EXCEPT !.pc = to]}

\* <-ctx.Done()
RemoveCtxDone(g) ==
    /\ g.pc = "wait"
    /\ g.ctx \in ctxDone
    /\ Step(g, "lock")
    /\ UNCHANGED <<othersPM, mu, pathConfs, paths, ctxDone, pc, op, ret, role, spath>>

\* pm.mu.Lock()
RemoveLock(g) ==
    /\ g.pc = "lock"
    /\ MuAvailable
    /\ mu' = MuRemove(g.name)
    /\ Step(g, "A")
    /\ UNCHANGED <<othersPM, pathConfs, paths, ctxDone, pc, op, ret, role, spath>>

\* delete(pm.pathConfs, name)
RemoveConf(g) ==
    /\ g.pc = "A"
    /\ pathConfs' = pathConfs \ {g.name}
    /\ Step(g, "B")
    /\ UNCHANGED <<othersPM, mu, paths, ctxDone, pc, op, ret, role, spath>>

\* pm.paths[name].close(): the mutex is held by this goroutine throughout
RemoveCloseSkipped(g) ==
    /\ g.pc = "B"
    /\ Step(g, "C")
    /\ UNCHANGED <<othersPM, mu, pathConfs, paths, ctxDone, pc, op, ret, role, spath>>

RemoveClose(g) ==
    /\ g.pc = "B"
    /\ IF g.name \in DOMAIN paths
       THEN /\ paths' = [paths EXCEPT ![g.name] = PathClosed(@)]
            /\ role' = [s \in Callers |->
                          IF s \in PathSessions(paths[g.name]) THEN "none" ELSE role[s]]
            /\ spath' = [s \in Callers |->
                          IF s \in PathSessions(paths[g.name]) THEN NoName ELSE spath[s]]
            /\ Step(g, "C")
       ELSE \* a nil *path: the call panics
            /\ Step(g, "panic")
            /\ UNCHANGED <<paths, role, spath>>
    /\ UNCHANGED <<othersPM, mu, pathConfs, ctxDone, pc, op, ret>>

\* delete(pm.paths, name)
RemovePathKept(g) ==
    /\ g.pc = "C"
    /\ rms' = (rms \ {g}) \cup {[g EXCEPT !.pc = "D", !.closes = 1]}
    /\ UNCHANGED <<othersPM, mu, pathConfs, paths, ctxDone, pc, op, ret, role, spath>>

RemovePath(g) ==
    /\ g.pc = "C"
    /\ paths' = MapDelete(paths, g.name)
    /\ rms' = (rms \ {g}) \cup
              {[g EXCEPT !.pc = "D",
                         !.closes = IF g.name \in DOMAIN paths
                                    THEN paths[g.name].closed ELSE 0]}
    /\ UNCHANGED <<othersPM, mu, pathConfs, ctxDone, pc, op, ret, role, spath>>

\* defer pm.mu.Unlock(): the goroutine ends; its context is of no use any more
RemoveUnlock(g) ==
    /\ g.pc = "D"
    /\ mu' = MuFree
    /\ rms' = (rms \ {g}) \cup {[g EXCEPT !.pc = "done", !.ctx = NoCtx]}
    /\ UNCHANGED <<othersPM, pathConfs, paths, ctxDone, pc, op, ret, role, spath>>


(***************************************************************************)
(* pathExist                                                               *)
(***************************************************************************)
PathExistResult(n) == n \in pathConfs

PathExist(t) ==
    /\ Body(t, "pathExist")
    /\ Return(t, [NoRet EXCEPT !.ok = PathExistResult(op[t].name)])
    /\ UNCHANGED <<othersPM, mu, pathConfs, paths, ctxDone, rms, op, role, spath>>

(***************************************************************************)
(* onDescribe                                                              *)
(***************************************************************************)
\* the response to the result sg of path.streamGet
OnDescribeAlwaysOK(sg) ==
    [NoRet EXCEPT !.status = StatusOK, !.ok = TRUE, !.stream = sg.stream, !.err = sg.err]

OnDescribeResponse(sg) ==
    IF sg.err # NoErr
    THEN IF sg.err = ErrPathNoOnePublishing
         THEN [NoRet EXCEPT !.status = StatusNotFound, !.err = sg.err]
         ELSE [NoRet EXCEPT !.status = StatusBadRequest, !.err = sg.err]
    ELSE [NoRet EXCEPT !.status = StatusOK, !.ok = TRUE, !.stream = sg.stream]

OnDescribe(t) ==
    /\ Body(t, "onDescribe")
    /\ LET n == op[t].name
       IN  IF n \notin DOMAIN paths
           THEN Return(t, [NoRet EXCEPT !.status = StatusNotFound, !.err = ErrPathNotExist])
           ELSE \E sg \in PathStreamGet(n, paths[n]) : Return(t, OnDescribeResponse(sg))
    /\ UNCHANGED <<othersPM, mu, pathConfs, paths, ctxDone, rms, op, role, spath>>

(***************************************************************************)
(* publisherAdd and readerAdd: the session is the calling goroutine.       *)
(***************************************************************************)
PublisherAdd(t) ==
    /\ Body(t, "publisherAdd")
    /\ LET n == op[t].name
       IN  IF n \notin DOMAIN paths
           THEN /\ Return(t, [NoRet EXCEPT !.err = ErrPathNotExist])
                /\ UNCHANGED <<paths, role, spath>>
           ELSE IF PathPublisherAddErr(paths[n]) # NoErr
           THEN /\ Return(t, [NoRet EXCEPT !.err = PathPublisherAddErr(paths[n])])
                /\ UNCHANGED <<paths, role, spath>>
           ELSE /\ paths' = [paths EXCEPT ![n].source = t]
                /\ role' = [role EXCEPT ![t] = "publisher"]
                /\ spath' = [spath EXCEPT ![t] = n]
                /\ Return(t, [NoRet EXCEPT !.ok = TRUE, !.path = n])
    /\ UNCHANGED <<othersPM, mu, pathConfs, ctxDone, rms, op>>

ReaderAdd(t) ==
    /\ Body(t, "readerAdd")
    /\ LET n == op[t].name
       IN  IF n \notin DOMAIN paths
           THEN /\ Return(t, [NoRet EXCEPT !.err = ErrPathNotExist])
                /\ UNCHANGED <<paths, role, spath>>
           ELSE IF PathReaderAddErr(paths[n]) # NoErr
           THEN /\ Return(t, [NoRet EXCEPT !.err = PathReaderAddErr(paths[n])])
                /\ UNCHANGED <<paths, role, spath>>
           ELSE /\ paths' = [paths EXCEPT ![n].readers = @ \cup {t}]
                /\ role' = [role EXCEPT ![t] = "reader"]
                /\ spath' = [spath EXCEPT ![t] = n]
                /\ Return(t, [NoRet EXCEPT !.ok = TRUE, !.path = n,
                                           !.stream = PathStream(n, paths[n])])
    /\ UNCHANGED <<othersPM, mu, pathConfs, ctxDone, rms, op>>

(***************************************************************************)
(* pathLogfByName                                                          *)
(***************************************************************************)
PathLogfByName(t) ==
    /\ Body(t, "pathLogfByName")
    /\ LET n == op[t].name
       IN  IF n \in DOMAIN paths
           THEN Return(t, [NoRet EXCEPT !.ok = TRUE, !.path = n])
           ELSE Return(t, NoRet)
    /\ UNCHANGED <<othersPM, mu, pathConfs, paths, ctxDone, rms, op, role, spath>>

(***************************************************************************)
(* An rtsp session that is bound to a path ends (TEARDOWN, socket error):  *)
(* it is removed from its path.                                            *)
(***************************************************************************)
SessionClose(t) ==
    /\ pc[t] = "idle"
    /\ role[t] # "none"
    /\ LET n == spath[t]
       IN  paths' = IF n \in DOMAIN paths
                    THEN [paths EXCEPT
                            ![n].source = IF @ = t THEN NoSession ELSE @,
                            ![n].readers = @ \ {t}]
                    ELSE paths
    /\ role' = [role EXCEPT ![t] = "none"]
    /\ spath' = [spath EXCEPT ![t] = NoName]
    /\ UNCHANGED <<othersPM, mu, pathConfs, ctxDone, rms, pc, op, ret>>

(***************************************************************************)
(* The path manager's specification.                                       *)
(***************************************************************************)
NextPM ==
    \/ \E t \in Callers : Call(t)
    \/ \E t \in Callers : AddPath(t)
    \/ \E t \in Callers : PathExist(t)
    \/ \E t \in Callers : OnDescribe(t)
    \/ \E t \in Callers : PublisherAdd(t)
    \/ \E t \in Callers : ReaderAdd(t)
    \/ \E t \in Callers : PathLogfByName(t)
    \/ \E t \in Callers : Unlock(t)
    \/ \E t \in Callers : SessionClose(t)
    \/ \E c \in Ctxs : Cancel(c)
    \/ \E g \in rms : RemoveCtxDone(g)
    \/ \E g \in rms : RemoveLock(g)
    \/ \E g \in rms : RemoveConf(g)
    \/ \E g \in rms : RemoveClose(g)
    \/ \E g \in rms : RemovePath(g)
    \/ \E g \in rms : RemoveUnlock(g)

Init ==
    /\ InitPM
    /\ InitProc
    /\ InitEnc
    /\ InitClient
    /\ InitArgs
    /\ InitKf
    /\ InitStream
    /\ InitHooks
    /\ InitBridge
    /\ InitUsers

SpecPM == Init /\ [][NextPM]_vars


(***************************************************************************)
(* Fairness.  A goroutine that can take a step takes it; sync.Mutex hands  *)
(* the lock to a goroutine that has waited (starvation mode), so a removal *)
(* goroutine that finds the mutex free again and again acquires it.        *)
(***************************************************************************)
CallerStep ==
    \E t \in Callers :
        \/ AddPath(t) \/ PathExist(t) \/ OnDescribe(t) \/ PublisherAdd(t)
        \/ ReaderAdd(t) \/ PathLogfByName(t) \/ Unlock(t)

RemovalStep(n) ==
    \E g \in rms :
        /\ g.name = n
        /\ RemoveCtxDone(g) \/ RemoveConf(g) \/ RemoveClose(g) \/ RemovePath(g)
           \/ RemoveUnlock(g)

RemovalLock(n) == \E g \in rms : g.name = n /\ RemoveLock(g)

FairPM ==
    /\ SpecPM
    /\ WF_vars(CallerStep)
    /\ \A n \in Names : WF_vars(RemovalStep(n)) /\ SF_vars(RemovalLock(n))

(***************************************************************************)
(* Steps of the callers, for the properties below.                         *)
(***************************************************************************)
\* caller t executes the body of a call of this kind in this step
Does(t, kind) == Body(t, kind) /\ pc'[t] = "unlock"

\* caller t has executed the body of a call of this kind and not yet returned
Did(t, kind) == pc[t] = "unlock" /\ op[t].kind = kind

Finished(n) == [name |-> n, ctx |-> NoCtx, pc |-> "done", closes |-> 1]

(***************************************************************************)
(* C1: among AddPath calls with the same name and a valid config, a call   *)
(* succeeds exactly when no registration of that name is live, every other *)
(* call returns ErrPathAlreadyExist, and a name never has two live         *)
(* registrations.                                                          *)
(***************************************************************************)
C1_OneLive == \A n \in Names : Cardinality(LiveRemovals(n)) <= 1

C1_AddPathStep ==
    \A t \in Callers :
        (Does(t, "AddPath") /\ op[t].confOk) =>
            IF Live(op[t].name)
            THEN ~ret'[t].ok /\ ret'[t].err = ErrPathAlreadyExist
            ELSE ret'[t].ok /\ ret'[t].err = NoErr /\ Live(op[t].name)'

C1_AddPathUnique == []C1_OneLive /\ [][C1_AddPathStep]_varsPM

C1_Witness ==
    \E t \in Callers :
        /\ Did(t, "AddPath")
        /\ op[t].confOk
        /\ ret[t].err = ErrPathAlreadyExist
        /\ Live(op[t].name)

(***************************************************************************)
(* C2: once the context of a registration is cancelled, the registration   *)
(* is eventually removed: the name is in neither map, the mutex is free    *)
(* and the path was closed exactly once.                                   *)
(***************************************************************************)
C2_Cancelled(n) == \E g \in LiveRemovals(n) : g.ctx \in ctxDone

C2_Removed(n) ==
    /\ n \notin pathConfs
    /\ n \notin DOMAIN paths
    /\ mu = MuFree
    /\ Finished(n) \in rms

C2_ClosedOnce == \A g \in rms : g.pc \in {"D", "done"} => g.closes = 1

C3_ExistUntilCancel ==
    \A t \in Callers :
        Did(t, "pathExist") =>
            /\ (\E g \in LiveRemovals(op[t].name) : g.ctx \notin ctxDone) => ret[t].ok
            /\ op[t].cctx # NoCtx => ~ret[t].ok

(***************************************************************************)
(* C4: path.close() is never invoked while the manager mutex is held: the  *)
(* removal goroutine holds the mutex only to delete the registry entries.  *)
(***************************************************************************)
C4_CloseOutsideLock ==
    \A g \in rms : g.pc = "B" => mu # MuRemove(g.name)


(***************************************************************************)
(* C5: onDescribe returns 404 and ErrPathNotExist for a name that is not   *)
(* registered, 404 and ErrPathNoOnePublishing for a path without a         *)
(* publisher, 400 for any other streamGet error and otherwise 200 with the *)
(* publisher's stream; it returns a stream only with 200 and no error, and *)
(* it never changes the registry.                                          *)
(***************************************************************************)
C5_Response(code, stream, err) ==
    [NoRet EXCEPT !.status = code, !.ok = (code = StatusOK), !.stream = stream,
                  !.err = err]

C5_DescribeStep ==
    \A t \in Callers :
        Does(t, "onDescribe") =>
            LET n == op[t].name
                r == ret'[t]
            IN  /\ IF ~Live(n)
                   THEN r = C5_Response(StatusNotFound, NoStream, ErrPathNotExist)
                   ELSE IF \A s \in Callers : ~(role[s] = "publisher" /\ spath[s] = n)
                   THEN r = C5_Response(StatusNotFound, NoStream, ErrPathNoOnePublishing)
                   ELSE \/ r = C5_Response(StatusOK, PathStream(n, paths[n]), NoErr)
                        \/ /\ r.err \notin {NoErr, ErrPathNoOnePublishing, ErrPathNotExist}
                           /\ r = C5_Response(StatusBadRequest, NoStream, r.err)
                /\ r.stream # NoStream =>
                       /\ r.status = StatusOK /\ r.err = NoErr
                       /\ role[r.stream[2]] = "publisher" /\ spath[r.stream[2]] = n
                /\ UNCHANGED <<pathConfs, paths, rms, role, spath>>

C5_DescribeResults == [][C5_DescribeStep]_varsPM

C5_Witness ==
    \E t \in Callers :
        /\ Did(t, "onDescribe")
        /\ ret[t].status = StatusOK
        /\ ret[t].stream = <<op[t].name, paths[op[t].name].source>>
        /\ ret[t].stream[2] # NoSession

(***************************************************************************)
(* C6: publisherAdd and readerAdd return ErrPathNotExist, no path and no   *)
(* stream for a name that is not registered, also after its removal, and   *)
(* then change nothing; for a registered name they change that path only.  *)
(***************************************************************************)
C6_AddStep ==
    \A t \in Callers :
        (Does(t, "publisherAdd") \/ Does(t, "readerAdd")) =>
            LET n == op[t].name
            IN  /\ pathConfs' = pathConfs
                /\ DOMAIN paths' = DOMAIN paths
                /\ \A m \in DOMAIN paths \ {n} : paths'[m] = paths[m]
                /\ \A s \in Callers \ {t} : role'[s] = role[s] /\ spath'[s] = spath[s]
                /\ IF Live(n)
                   THEN /\ ret'[t].err # ErrPathNotExist
                        /\ ret'[t].ok => ret'[t].path = n /\ spath'[t] = n
                   ELSE /\ ret'[t] = [NoRet EXCEPT !.err = ErrPathNotExist]
                        /\ UNCHANGED <<paths, role, spath>>

C6_UnknownPath == [][C6_AddStep]_varsPM

C6_Witness ==
    \E t \in Callers :
        /\ Did(t, "publisherAdd") \/ Did(t, "readerAdd")
        /\ ret[t].err = ErrPathNotExist
        /\ Finished(op[t].name) \in rms

(***************************************************************************)
(* C7: a path name has at most one publisher session bound, and a          *)
(* publisherAdd call on a name that has a publisher bound fails.           *)
(***************************************************************************)
Publishers(n) == {s \in Callers : role[s] = "publisher" /\ spath[s] = n}

C7_AtMostOne == \A n \in Names : Cardinality(Publishers(n)) <= 1

C7_PublisherStep ==
    \A t \in Callers :
        Does(t, "publisherAdd") =>
            /\ Publishers(op[t].name) # {} => ~ret'[t].ok /\ ret'[t].err # NoErr
            /\ ret'[t].ok => Publishers(op[t].name)' = {t}

C7_OnePublisher == []C7_AtMostOne /\ [][C7_PublisherStep]_varsPM

C7_Witness ==
    \E t \in Callers :
        /\ Did(t, "publisherAdd")
        /\ ~ret[t].ok
        /\ Publishers(op[t].name) # {}
        /\ t \notin Publishers(op[t].name)


(***************************************************************************)
(* process (package ffmpeg): the supervisor of one child process.          *)
(***************************************************************************)
ProcUnchanged(changed) ==
    /\ UNCHANGED othersProc
    /\ "timeout" \in changed \/ timeout' = timeout
    /\ "startPc" \in changed \/ startPc' = startPc
    /\ "startRet" \in changed \/ startRet' = startRet
    /\ "launched" \in changed \/ launched' = launched
    /\ "doneClosed" \in changed \/ doneClosed' = doneClosed
    /\ "watcher" \in changed \/ watcher' = watcher
    /\ "pctxDone" \in changed \/ pctxDone' = pctxDone
    /\ "child" \in changed \/ child' = child
    /\ "status" \in changed \/ status' = status
    /\ "delivered" \in changed \/ delivered' = delivered
    /\ "signals" \in changed \/ signals' = signals
    /\ "elapsed" \in changed \/ elapsed' = elapsed
    /\ "exitInTime" \in changed \/ exitInTime' = exitInTime

\* the cancel is pending on a child that still runs
Stopping == pctxDone /\ child = "running"

\* a step of the supervisor or of the clock, counted while Stopping
Counted == stopSteps' = IF Stopping THEN stopSteps + 1 ELSE stopSteps

\* SetTimeout
SetTimeout(d) ==
    /\ startPc = "new"
    /\ timeout # d
    /\ timeout' = d
    /\ ProcUnchanged({"timeout"})
    /\ UNCHANGED stopSteps

\* Start, up to cmd.Wait(): cmd.Start(), p.done = make(chan), go func()
StartLaunch(ok) ==
    /\ startPc = "new"
    /\ IF ok
       THEN /\ launched' = TRUE
            /\ child' = "running"
            /\ watcher' = "select"
            /\ startPc' = "wait"
            /\ UNCHANGED startRet
       ELSE /\ startRet' = LaunchErr
            /\ startPc' = "ret"
            /\ UNCHANGED <<launched, child, watcher>>
    /\ ProcUnchanged({"launched", "child", "watcher", "startPc", "startRet"})
    /\ UNCHANGED stopSteps

\* cancel() of the context given to Start
CancelStart ==
    /\ ~pctxDone
    /\ pctxDone' = TRUE
    /\ ProcUnchanged({"pctxDone"})
    /\ UNCHANGED stopSteps

\* the timer of stop() has not expired
TimerPending == watcher \in {"none", "select"} \/ elapsed < timeout

ChildEnds(st) ==
    /\ child = "running"
    /\ child' = "exited"
    /\ status' = st
    /\ exitInTime' = TimerPending
    /\ ProcUnchanged({"child", "status", "exitInTime"})
    /\ UNCHANGED stopSteps

\* the child exits by itself, or because it handles SIGINT
ChildExit(code) == ChildEnds(Exited(code))

\* the child has no handler for SIGINT and dies of it
ChildInterrupted == "interrupt" \in delivered /\ ChildEnds(Signaled("interrupt"))

\* SIGKILL terminates the child
ChildKilled == "kill" \in delivered /\ ChildEnds(Signaled("killed"))

\* the error of cmd.Wait() for a wait status
WaitErr(st) == IF st = Exited(0) THEN NilErr ELSE st

\* err.Error()
ErrorText(err) ==
    IF err.kind = "exit" THEN <<"exit status ", err.code>>
    ELSE IF err.kind = "signal" THEN <<"signal: " \o err.sig, 0>>
    ELSE <<err.kind, 0>>

\* what Start returns for the error of cmd.Wait()
StartResultAsIs(err) == err

StartResult(err) ==
    IF err # NilErr /\ ErrorText(err) = <<"exit status ", NormalExit>>
    THEN NilErr
    ELSE err

\* cmd.Wait() returns, close(p.done), return
StartFinish ==
    /\ startPc = "wait"
    /\ child = "exited"
    /\ doneClosed' = TRUE
    /\ startRet' = StartResult(WaitErr(status))
    /\ startPc' = "ret"
    /\ ProcUnchanged({"doneClosed", "startRet", "startPc"})
    /\ Counted

\* p.cmd.Process.Signal(sig): nothing is sent once Wait has returned
Signal(sig) ==
    IF startPc = "wait"
    THEN /\ signals' = Append(signals, sig)
         /\ delivered' = IF child = "running" THEN delivered \cup {sig} ELSE delivered
    ELSE UNCHANGED <<signals, delivered>>

\* select: case <-p.done
WatchDone ==
    /\ watcher = "select"
    /\ doneClosed
    /\ watcher' = "end"
    /\ ProcUnchanged({"watcher"})
    /\ Counted

\* select: case <-ctx.Done(): p.stop() sends SIGINT and arms its timer
WatchCtx ==
    /\ watcher = "select"
    /\ pctxDone
    /\ Signal("interrupt")
    /\ elapsed' = 0
    /\ watcher' = "stop"
    /\ ProcUnchanged({"watcher", "signals", "delivered", "elapsed"})
    /\ Counted

\* time passes while stop() waits
Tick ==
    /\ watcher = "stop"
    /\ elapsed < timeout
    /\ elapsed' = IF elapsed + TickMs > timeout THEN timeout ELSE elapsed + TickMs
    /\ ProcUnchanged({"elapsed"})
    /\ Counted

\* stop(): case <-p.done
StopDone ==
    /\ watcher = "stop"
    /\ doneClosed
    /\ watcher' = "end"
    /\ ProcUnchanged({"watcher"})
    /\ Counted

\* time.After(p.timeout) has fired
TimerFiredAtOnce == TRUE

TimerFired == elapsed >= timeout

\* stop(): case <-time.After(p.timeout): SIGKILL
StopTimeoutNoKill ==
    /\ watcher = "stop"
    /\ TimerFired
    /\ watcher' = "kill"
    /\ ProcUnchanged({"watcher"})
    /\ Counted

StopTimeout ==
    /\ watcher = "stop"
    /\ TimerFired
    /\ Signal("kill")
    /\ watcher' = "kill"
    /\ ProcUnchanged({"watcher", "signals", "delivered"})
    /\ Counted

\* stop(): <-p.done after SIGKILL
StopWaitDone ==
    /\ watcher = "kill"
    /\ doneClosed
    /\ watcher' = "end"
    /\ ProcUnchanged({"watcher"})
    /\ Counted

NextProc ==
    \/ \E d \in Timeouts \cup {DefaultTimeout} : SetTimeout(d)
    \/ \E ok \in BOOLEAN : StartLaunch(ok)
    \/ CancelStart
    \/ \E code \in ExitCodes : ChildExit(code)
    \/ ChildInterrupted
    \/ ChildKilled
    \/ StartFinish
    \/ WatchDone
    \/ WatchCtx
    \/ Tick
    \/ StopDone
    \/ StopTimeout
    \/ StopWaitDone

SpecProc == Init /\ [][NextProc]_vars

\* Goroutines that can run do run, time passes, and SIGKILL terminates the child.
FairProc ==
    /\ SpecProc
    /\ WF_vars(StartFinish)
    /\ WF_vars(WatchDone \/ WatchCtx \/ StopDone \/ StopTimeout \/ StopWaitDone)
    /\ WF_vars(Tick)
    /\ WF_vars(ChildKilled)


(***************************************************************************)
(* C8: on cancel the supervisor sends SIGINT first; SIGKILL follows only   *)
(* once the timeout has elapsed since then and Start has not closed        *)
(* p.done; each signal is sent at most once.  The claim as made says more: *)
(* that SIGKILL is never sent to a child that exited within the timeout.   *)
(***************************************************************************)
C8_Order == signals \in {<<>>, <<"interrupt">>, <<"interrupt", "kill">>}

C8_Sent ==
    /\ C8_Order
    /\ signals # <<>> => pctxDone /\ launched
    /\ "interrupt" \in delivered => signals # <<>>
    /\ "kill" \in delivered => Len(signals) = 2
    /\ Len(signals) = 2 => elapsed >= timeout /\ watcher \in {"kill", "end"}

C8_KillStep ==
    Len(signals') = 2 /\ Len(signals) < 2 =>
        /\ signals = <<"interrupt">>
        /\ elapsed >= timeout
        /\ ~doneClosed
        /\ watcher = "stop"

C8_IntStep ==
    (watcher = "select" /\ watcher' = "stop" /\ child = "running") =>
        signals' = <<"interrupt">> /\ "interrupt" \in delivered' /\ elapsed' = 0

C8_SigintThenKill == []C8_Sent /\ [][C8_KillStep /\ C8_IntStep]_vars

C8_Witness ==
    /\ signals = <<"interrupt", "kill">>
    /\ status = Signaled("killed")
    /\ timeout # DefaultTimeout

C8_KillOnlyIfLate ==
    /\ C8_Order
    /\ "kill" \in {signals[i] : i \in DOMAIN signals} => ~(child = "exited" /\ exitInTime)

(***************************************************************************)
(* C9: Start returns only after the child has exited; it returns nil for   *)
(* exit status 0 and 255 and the wait error for any other status or a      *)
(* signal death; when the child cannot be started it returns the launch    *)
(* error with no watcher goroutine and no signal sent.                     *)
(***************************************************************************)
C9_StartReturn ==
    startPc = "ret" =>
        IF launched
        THEN /\ child = "exited"
             /\ doneClosed
             /\ startRet = IF status.kind = "exit" /\ status.code \in {0, NormalExit}
                           THEN NilErr
                           ELSE status
        ELSE /\ startRet = LaunchErr
             /\ child = "none"
             /\ watcher = "none"
             /\ signals = <<>>
             /\ ~doneClosed

C9_Witness ==
    /\ startPc = "ret"
    /\ status = Exited(NormalExit)
    /\ startRet = NilErr

(***************************************************************************)
(* C10: after a cancel of the context of a running child, the child exits  *)
(* and Start returns, also when the child ignores SIGINT; until the exit   *)
(* the supervisor takes no more steps than the timeout has ticks, plus the *)
(* two that send the signals.                                              *)
(***************************************************************************)
TicksOf(d) == (d + TickMs - 1) \div TickMs

C10_Bounded == stopSteps <= TicksOf(timeout) + 2

C10_CancelStops ==
    /\ Stopping ~> (child = "exited" /\ startPc = "ret")
    /\ []C10_Bounded

C10_Witness ==
    /\ startPc = "ret"
    /\ status = Signaled("killed")
    /\ stopSteps = TicksOf(timeout) + 2
    /\ timeout = DefaultTimeout


(***************************************************************************)
(* ffmpegConfig.start and runFFmpeg (package doods).                       *)
(***************************************************************************)
\* the context of the monitor is cancelled
EncCancel ==
    /\ ~fctxDone
    /\ fctxDone' = TRUE
    /\ UNCHANGED <<othersEnc, fpc, runs, slept, wg, ctx2s>>

\* start: if ctx.Err() != nil { wg.Done(); return }, else f.runFFmpeg(ctx, f)
StartCheck ==
    /\ fpc = "check"
    /\ IF fctxDone
       THEN /\ fpc' = "stopped"
            /\ wg' = wg - 1
       ELSE /\ Len(runs) < MaxRuns
            /\ fpc' = "run"
            /\ UNCHANGED wg
    /\ UNCHANGED <<othersEnc, fctxDone, runs, slept, ctx2s>>

\* what start does with the value runFFmpeg returned
RunReturnedCrashStops(res) ==
    /\ runs' = Append(runs, res)
    /\ fpc' = IF res = "nil" THEN "check" ELSE "stopped"
    /\ slept' = 0

RunReturned(res) ==
    /\ runs' = Append(runs, res)
    /\ fpc' = IF res = "nil" THEN "check" ELSE "sleep"
    /\ slept' = 0

\* runFFmpeg: cmd.StdoutPipe() fails
RunPipeErr ==
    /\ fpc = "run"
    /\ RunReturned("crash")
    /\ UNCHANGED <<othersEnc, fctxDone, wg, ctx2s>>

\* runFFmpeg: ctx2, wg.Add(1), go f.startClient(ctx2, f.d), process.Start(ctx)
RunStart ==
    /\ fpc = "run"
    /\ fpc' = "proc"
    /\ wg' = wg + 1
    /\ ctx2s' = Append(ctx2s, "live")
    /\ UNCHANGED <<othersEnc, fctxDone, runs, slept>>

\* runFFmpeg: process.Start(ctx) returns, cancel() of ctx2 runs, runFFmpeg
\* returns nil or "detector crashed"
ProcReturn(res) ==
    /\ fpc = "proc"
    /\ RunReturned(res)
    /\ ctx2s' = [ctx2s EXCEPT ![Len(ctx2s)] = "cancelled"]
    /\ UNCHANGED <<othersEnc, fctxDone, wg>>

\* the client goroutine of the i-th process finds ctx2 cancelled: wg.Done()
ClientStopped(i) ==
    /\ ctx2s[i] = "cancelled"
    /\ ctx2s' = [ctx2s EXCEPT ![i] = "stopped"]
    /\ wg' = wg - 1
    /\ UNCHANGED <<othersEnc, fctxDone, fpc, runs, slept>>

\* time.Sleep(1 * time.Second): time passes
SleepTick ==
    /\ fpc = "sleep"
    /\ slept < CrashSleep
    /\ slept' = slept + TickMs
    /\ UNCHANGED <<othersEnc, fctxDone, fpc, runs, wg, ctx2s>>

\* time.Sleep returns
SleepDone ==
    /\ fpc = "sleep"
    /\ slept >= CrashSleep
    /\ fpc' = "check"
    /\ UNCHANGED <<othersEnc, fctxDone, runs, slept, wg, ctx2s>>

NextEnc ==
    \/ EncCancel
    \/ StartCheck
    \/ RunPipeErr
    \/ RunStart
    \/ \E res \in RunResults : ProcReturn(res)
    \/ \E i \in DOMAIN ctx2s : ClientStopped(i)
    \/ SleepTick
    \/ SleepDone

SpecEnc == Init /\ [][NextEnc]_vars

\* the loop's goroutine is scheduled and the clock advances; process.Start
\* returns once its context is cancelled
FairEnc ==
    /\ SpecEnc
    /\ WF_vars(StartCheck)
    /\ WF_vars(RunPipeErr \/ RunStart)
    /\ WF_vars(SleepTick)
    /\ WF_vars(SleepDone)
    /\ WF_vars(fctxDone /\ \E res \in RunResults : ProcReturn(res))

(***************************************************************************)
(* C11: the restart loop ends only at its check of a cancelled context;    *)
(* at a check with a live context it launches runFFmpeg again, after a     *)
(* crash only once 1 s has been slept; at a check with a cancelled context *)
(* it launches nothing and exits, and after a cancel the loop does exit.   *)
(***************************************************************************)
C11_LoopStep ==
    /\ (fpc # "stopped" /\ fpc' = "stopped") => fpc = "check" /\ fctxDone
    /\ (fpc = "check" /\ fpc' # "check") =>
           fpc' = IF fctxDone THEN "stopped" ELSE "run"
    /\ (fpc \in {"run", "proc"} /\ fpc' # fpc /\ fpc' # "proc") =>
           /\ Len(runs') = Len(runs) + 1
           /\ fpc' = IF runs'[Len(runs')] = "crash" THEN "sleep" ELSE "check"
           /\ slept' = 0
    /\ (fpc = "sleep" /\ fpc' # "sleep") => fpc' = "check" /\ slept >= CrashSleep
    /\ fpc = "stopped" => fpc' = "stopped" /\ runs' = runs

C11_Relaunch ==
    (fpc \in {"check", "sleep"} /\ Len(runs) < MaxRuns) ~> (fpc = "run" \/ fctxDone)

C11_RestartLoop ==
    /\ [][C11_LoopStep]_vars
    /\ C11_Relaunch
    /\ fctxDone ~> (fpc = "stopped")

C11_Witness ==
    /\ fpc = "stopped"
    /\ Len(runs) = MaxRuns
    /\ runs[1] = "crash"
    /\ runs[MaxRuns] = "nil"


(***************************************************************************)
(* C27: at most one client task of the bridge is running: the task started *)
(* by a call of runFFmpeg has stopped before the next call starts another. *)
(***************************************************************************)
C27_Running == {i \in DOMAIN ctx2s : ctx2s[i] # "stopped"}

C27_OneClient == Cardinality(C27_Running) <= 1

(***************************************************************************)
(* parseConfig, startClient, runClient, readFrames, sendFrame and          *)
(* parseDetections (package doods).                                        *)
(***************************************************************************)
ClientUnchanged(changed) ==
    /\ UNCHANGED othersClient
    /\ "cctxDone" \in changed \/ cctxDone' = cctxDone
    /\ "cpc" \in changed \/ cpc' = cpc
    /\ "conf" \in changed \/ (conf' = conf /\ rawThresholds' = rawThresholds)
    /\ "frames" \in changed \/ (frames' = frames /\ readAt' = readAt /\ frameT' = frameT)
    /\ "resp" \in changed \/ (resp' = resp /\ posted' = posted)
    /\ "trigger" \in changed \/ trigger' = trigger
    /\ "cret" \in changed \/ cret' = cret
    /\ "cslept" \in changed \/ "cret" \in changed \/ cslept' = cslept
    /\ "cevent" \in changed \/ cevent' = cevent
    /\ "cruns" \in changed \/ cruns' = cruns

\* parseConfig: the thresholds as unmarshalled
ParseConfigThresholdsAsGiven(t) == t

\* parseConfig: the thresholds, the entries of -1 deleted
ParseConfigThresholds(t) == [l \in {k \in DOMAIN t : t[k] # Disabled} |-> t[l]]

\* parseConfig succeeds
ParseConfig(t, off, dur, sec) ==
    /\ cpc = "new"
    /\ rawThresholds' = t
    /\ conf' = [thresholds |-> ParseConfigThresholds(t), timestampOffset |-> off,
                duration |-> dur, recDuration |-> sec * 1000]
    /\ cpc' = "check"
    /\ cevent' = "conf"
    /\ ClientUnchanged({"cpc", "conf", "cevent"})

\* parseConfig returns an error: start returns it and no client is started
ParseConfigErr ==
    /\ cpc = "new"
    /\ cpc' = "noconf"
    /\ cevent' = "confErr"
    /\ ClientUnchanged({"cpc", "cevent"})

\* the context of the client (ctx2 of runFFmpeg) is cancelled
ClientCancel ==
    /\ cpc \notin {"new", "noconf"}
    /\ ~cctxDone
    /\ cctxDone' = TRUE
    /\ ClientUnchanged({"cctxDone"})

\* startClient: if ctx.Err() != nil { wg.Done(); return }, else d.runClient(ctx, d)
ClientCheck ==
    /\ cpc = "check"
    /\ IF cctxDone
       THEN /\ cpc' = "stopped"
            /\ cevent' = "ctx"
            /\ UNCHANGED cruns
       ELSE /\ cruns < MaxClientRuns
            /\ cpc' = "connect"
            /\ cevent' = "run"
            /\ cruns' = cruns + 1
    /\ ClientUnchanged({"cpc", "cevent", "cruns"})

\* runClient returns to startClient: on an error time.Sleep(1 * time.Second)
RunClientReturn(res) ==
    /\ cret' = res
    /\ cpc' = IF res = "nil" THEN "check" ELSE "sleep"
    /\ cslept' = 0

\* runClient: grpc.DialContext and rpcClient.DetectStream
Connect(ok) ==
    /\ cpc = "connect"
    /\ IF ok
       THEN /\ cpc' = "frames"
            /\ cevent' = "connected"
            /\ ClientUnchanged({"cpc", "cevent"})
       ELSE /\ RunClientReturn("error")
            /\ cevent' = "connectErr"
            /\ ClientUnchanged({"cpc", "cret", "cevent"})

\* readFrames: if ctx.Err() != nil { return nil }
ReadCtxDone ==
    /\ cpc = "frames"
    /\ cctxDone
    /\ cpc' = "close"
    /\ cevent' = "readCtx"
    /\ ClientUnchanged({"cpc", "cevent"})

\* readFrames: what it returns on an error of io.ReadAtLeast
ReadErrResultNoEOF(e) == "error"

ReadErrResult(e) == IF e = "EOF" THEN "nil" ELSE "error"

\* readFrames: io.ReadAtLeast returns an error
ReadErr(e) ==
    /\ cpc = "frames"
    /\ cevent' = IF e = "EOF" THEN "stdoutEOF" ELSE "readErr"
    /\ IF ReadErrResult(e) = "nil"
       THEN /\ cpc' = "close"
            /\ ClientUnchanged({"cpc", "cevent"})
       ELSE /\ RunClientReturn("error")
            /\ ClientUnchanged({"cpc", "cret", "cevent"})

\* time.Time.Add: a new value, t itself is not changed
TimeAdd(t, d) == t + d

\* readFrames: t := time.Now(); t.Add(-d.c.timestampOffset), whose value is
\* dropped; t is what sendFrame is given
StampTime(now, offset) ==
    LET t == now
        dropped == TimeAdd(t, 0 - offset)
    IN  t

\* readFrames: a frame is read, stamped and encoded
ReadFrame(now) ==
    /\ cpc = "frames"
    /\ frames < MaxFrames
    /\ frames' = frames + 1
    /\ readAt' = now
    /\ frameT' = StampTime(now, conf.timestampOffset)
    /\ cpc' = "send"
    /\ cevent' = "frame"
    /\ ClientUnchanged({"cpc", "frames", "cevent"})

\* sendFrame: d.stream.Send(request)
SendFrame(ok) ==
    /\ cpc = "send"
    /\ IF ok
       THEN /\ cpc' = "recv"
            /\ cevent' = "sent"
            /\ ClientUnchanged({"cpc", "cevent"})
       ELSE /\ RunClientReturn("error")
            /\ cevent' = "sendErr"
            /\ ClientUnchanged({"cpc", "cret", "cevent"})

\* sendFrame: what it returns on an error of d.stream.Recv()
RecvErrResult(e) == IF e = "EOF" THEN "nil" ELSE "error"

\* sendFrame: d.stream.Recv() returns an error
RecvErr(e) ==
    /\ cpc = "recv"
    /\ cevent' = IF e = "EOF" THEN "recvEOF" ELSE "recvErr"
    /\ IF RecvErrResult(e) = "nil"
       THEN /\ cpc' = "frames"
            /\ ClientUnchanged({"cpc", "cevent"})
       ELSE /\ RunClientReturn("error")
            /\ ClientUnchanged({"cpc", "cret", "cevent"})

\* parseDetections: the entries of the thresholds a detection passes
Hits(d, th) == {name \in DOMAIN th : ~(d.label # name \/ d.score < th[name])}

RECURSIVE Repeat(_, _)
Repeat(d, n) == IF n = 0 THEN <<>> ELSE <<d>> \o Repeat(d, n - 1)

\* parseDetections: the loop over the detections and, for each, over the
\* entries of the thresholds, appending to filtered
RECURSIVE Filtered(_, _)
Filtered(dets, th) ==
    IF dets = <<>>
    THEN <<>>
    ELSE Repeat(Head(dets), Cardinality(Hits(Head(dets), th)))
             \o Filtered(Tail(dets), th)

\* parseDetections: whether an Event is sent on a.trigger
SendsEventAlways(filtered) == TRUE

SendsEvent(filtered) == Len(filtered) # 0

\* sendFrame: d.stream.Recv() returns a response
RecvResponse(dets) ==
    /\ cpc = "recv"
    /\ resp' = dets
    /\ posted' = 0
    /\ cpc' = "parse"
    /\ cevent' = "resp"
    /\ ClientUnchanged({"cpc", "resp", "cevent"})

\* parseDetections(t, response.Detections): the Event is sent on a.trigger,
\* or parseDetections and sendFrame return with nothing sent
ParseDetectionsNoWait ==
    /\ cpc = "parse"
    /\ LET filtered == Filtered(resp, conf.thresholds)
       IN  IF Len(resp) # 0 /\ SendsEvent(filtered)
           THEN /\ trigger' = [time |-> frameT, detections |-> filtered,
                               duration |-> conf.duration,
                               recDuration |-> conf.recDuration]
                /\ posted' = posted + 1
                /\ cpc' = "frames"
                /\ cevent' = "event"
                /\ resp' = <<>>
           ELSE /\ trigger' = NoEvent
                /\ posted' = 0
                /\ cpc' = "frames"
                /\ cevent' = "noEvent"
                /\ resp' = <<>>
    /\ ClientUnchanged({"cpc", "resp", "trigger", "cevent"})

ParseDetections ==
    /\ cpc = "parse"
    /\ LET filtered == Filtered(resp, conf.thresholds)
       IN  IF Len(resp) # 0 /\ SendsEvent(filtered)
           THEN /\ trigger' = [time |-> frameT, detections |-> filtered,
                               duration |-> conf.duration,
                               recDuration |-> conf.recDuration]
                /\ posted' = posted + 1
                /\ cpc' = "post"
                /\ cevent' = "event"
                /\ UNCHANGED resp
           ELSE /\ trigger' = NoEvent
                /\ posted' = 0
                /\ cpc' = "frames"
                /\ cevent' = "noEvent"
                /\ resp' = <<>>
    /\ ClientUnchanged({"cpc", "resp", "trigger", "cevent"})

\* the monitor receives the Event from a.trigger; parseDetections and
\* sendFrame return
TriggerReceive ==
    /\ cpc = "post"
    /\ trigger' = NoEvent
    /\ resp' = <<>>
    /\ posted' = 0
    /\ cpc' = "frames"
    /\ cevent' = "received"
    /\ ClientUnchanged({"cpc", "resp", "trigger", "cevent"})

\* runClient: d.stream.CloseSend() after readFrames returned nil
CloseSend(ok) ==
    /\ cpc = "close"
    /\ RunClientReturn(IF ok THEN "nil" ELSE "error")
    /\ cevent' = IF ok THEN "closed" ELSE "closeErr"
    /\ ClientUnchanged({"cpc", "cret", "cevent"})

\* startClient: time.Sleep(1 * time.Second), time passes
ClientSleepTick ==
    /\ cpc = "sleep"
    /\ cslept < ClientSleep
    /\ cslept' = cslept + TickMs
    /\ ClientUnchanged({"cslept"})

\* startClient: time.Sleep returns
ClientSleepDone ==
    /\ cpc = "sleep"
    /\ cslept >= ClientSleep
    /\ cpc' = "check"
    /\ cevent' = "slept"
    /\ ClientUnchanged({"cpc", "cevent"})

NextClient ==
    \/ \E t \in ThresholdMaps, off \in Offsets, dur \in Durations, sec \in RecSeconds :
           ParseConfig(t, off, dur, sec)
    \/ ParseConfigErr
    \/ ClientCancel
    \/ ClientCheck
    \/ \E ok \in BOOLEAN : Connect(ok)
    \/ ReadCtxDone
    \/ \E e \in {"EOF", "other"} : ReadErr(e)
    \/ \E now \in ReadTimes : ReadFrame(now)
    \/ \E ok \in BOOLEAN : SendFrame(ok)
    \/ \E e \in {"EOF", "other"} : RecvErr(e)
    \/ \E dets \in Responses : RecvResponse(dets)
    \/ ParseDetections
    \/ TriggerReceive
    \/ \E ok \in BOOLEAN : CloseSend(ok)
    \/ ClientSleepTick
    \/ ClientSleepDone

SpecClient == Init /\ [][NextClient]_vars


(***************************************************************************)
(* C12: the detections of the Event are the detections of the response     *)
(* whose label has a configured threshold other than -1 and whose score is *)
(* at least that threshold, in the order of the response, each once; when  *)
(* no Event is sent, no detection of the response is of that kind.         *)
(***************************************************************************)
C12_Expected ==
    SelectSeq(resp, LAMBDA d : /\ d.label \in DOMAIN rawThresholds
                               /\ rawThresholds[d.label] # -1
                               /\ d.score >= rawThresholds[d.label])

C12_EventDetections == cpc = "post" => trigger.detections = C12_Expected

C12_NoEventStep == (cpc = "parse" /\ cpc' = "frames") => C12_Expected = <<>>

C12_ThresholdFilter == []C12_EventDetections /\ [][C12_NoEventStep]_vars

C12_Witness ==
    /\ cpc = "post"
    /\ rawThresholds = ExampleThresholds
    /\ resp = ExampleResponse
    /\ trigger.detections = <<Detection("person", 70)>>

(***************************************************************************)
(* C13: handling one response sends exactly one Event on the trigger       *)
(* channel when a detection passes the thresholds and none otherwise,      *)
(* never more than one; the Event carries the configured Duration and      *)
(* RecDuration.                                                            *)
(***************************************************************************)
C13_OneAtMost ==
    /\ posted <= 1
    /\ trigger # NoEvent <=> cpc = "post"
    /\ cpc = "post" => posted = 1

C13_ParseStep ==
    (cpc = "parse" /\ cpc' # "parse") =>
        IF C12_Expected # <<>>
        THEN /\ cpc' = "post"
             /\ posted' = 1
             /\ trigger'.duration = conf.duration
             /\ trigger'.recDuration = conf.recDuration
        ELSE /\ cpc' = "frames"
             /\ posted' = 0
             /\ trigger' = NoEvent

C13_OneEvent == []C13_OneAtMost /\ [][C13_ParseStep]_vars

C13_Witness ==
    /\ cpc = "post"
    /\ posted = 1
    /\ Len(resp) = 2
    /\ Len(trigger.detections) = 1
    /\ trigger.duration = 1000

(***************************************************************************)
(* C14: the Time of an Event is the time at which its frame was read minus *)
(* the configured timestampOffset.                                         *)
(***************************************************************************)
C14_TimeMinusOffset ==
    cpc = "post" => trigger.time = readAt - conf.timestampOffset

(***************************************************************************)
(* C15: EOF on the encoder's stdout ends readFrames without an error and   *)
(* runClient returns nil when CloseSend succeeds, with no sleep; an error  *)
(* of Send, or an error of Recv other than io.EOF, makes runClient return  *)
(* an error, and startClient then sleeps 1 s before its next check; Recv   *)
(* returning io.EOF makes sendFrame return nil and readFrames go on; at a  *)
(* check with a cancelled context startClient stops, and starts no run.    *)
(* The claim as made says that every error of Recv makes runClient return  *)
(* an error.                                                               *)
(***************************************************************************)
C15_CleanEnd ==
    /\ cevent = "stdoutEOF" => cpc = "close"
    /\ cevent = "closed" => cpc = "check" /\ cret = "nil"

C15_LoopStep ==
    /\ (cpc = "sleep" /\ cpc' # "sleep") => cpc' = "check" /\ cslept >= ClientSleep
    /\ (cpc = "check" /\ cpc' # "check") =>
           cpc' = IF cctxDone THEN "stopped" ELSE "connect"
    /\ (cpc # "stopped" /\ cpc' = "stopped") => cpc = "check" /\ cctxDone
    /\ cpc = "stopped" => cpc' = "stopped" /\ cruns' = cruns

C15_Returned == cpc = "sleep" /\ cret = "error"

C15_ClientRestarts ==
    /\ [](C15_CleanEnd /\ (cevent \in {"sendErr", "recvErr"} => C15_Returned))
    /\ [](cevent = "recvEOF" => cpc = "frames")
    /\ [][C15_LoopStep]_vars

C15_Witness ==
    /\ cevent = "recvErr"
    /\ cpc = "sleep"
    /\ cslept >= ClientSleep
    /\ ~cctxDone

C15_RpcErrorsRestart ==
    /\ C15_CleanEnd
    /\ cevent \in {"sendErr", "recvErr", "recvEOF"} => C15_Returned


(***************************************************************************)
(* C26: a client task handles one frame at a time.  A frame is read only   *)
(* when the frame before it is done with: its request is no longer being   *)
(* sent or answered, its response is not being parsed and its Event has    *)
(* been taken from a.trigger.  While the detector does not answer or the   *)
(* Event is not taken, no frame is read, and a request is sent only for    *)
(* the frame just read.                                                    *)
(***************************************************************************)
C26_Busy == cpc \in {"send", "recv", "parse", "post"}

C26_Pending ==
    /\ trigger # NoEvent => cpc = "post"
    /\ resp # <<>> => cpc \in {"parse", "post"}

C26_Step ==
    /\ frames' # frames =>
          /\ cpc = "frames"
          /\ trigger = NoEvent
          /\ resp = <<>>
          /\ frames' = frames + 1
          /\ cpc' = "send"
    /\ C26_Busy => frames' = frames
    /\ (cpc # "recv" /\ cpc' = "recv") => cpc = "send"
    /\ (cpc = "send" /\ cpc' # "send") => cpc' \in {"recv", "sleep"}
    /\ (cpc = "post" /\ cpc' # "post") => trigger' = NoEvent /\ cpc' = "frames"

FairClient ==
    /\ SpecClient
    /\ WF_vars(ClientCheck)
    /\ WF_vars(\E ok \in BOOLEAN : Connect(ok))
    /\ WF_vars(ReadCtxDone)
    /\ WF_vars(\E ok \in BOOLEAN : SendFrame(ok))
    /\ WF_vars(cctxDone /\ RecvErr("other"))
    /\ WF_vars(ParseDetections)
    /\ WF_vars(\E ok \in BOOLEAN : CloseSend(ok))
    /\ WF_vars(ClientSleepTick)
    /\ WF_vars(ClientSleepDone)

\* the same, the monitor receiving every Event sent on a.trigger
FairClientReceived == FairClient /\ WF_vars(TriggerReceive)

(***************************************************************************)
(* C32: the WaitGroup of the bridge is balanced.  The counter is one for   *)
(* the restart loop while it has not returned plus one for each client     *)
(* task that has not returned, and never negative; once the context is     *)
(* cancelled the client task calls wg.Done() and returns.                  *)
(***************************************************************************)
C32_Balanced ==
    /\ wg >= 0
    /\ wg = (IF fpc = "stopped" THEN 0 ELSE 1) + Cardinality(C27_Running)

C32_ClientDone == cctxDone ~> cpc = "stopped"

(***************************************************************************)
(* newAddon and addon.generateFFmpegArgs (package doods).                  *)
(***************************************************************************)
\* newAddon: outputWidth and outputHeight are the detector's
NewAddon(w, h) ==
    /\ apc = "new"
    /\ outputWidth' = w
    /\ outputHeight' = h
    /\ apc' = "addon"
    /\ UNCHANGED <<othersArgs, inputSize, ffargs>>

\* generateFFmpegArgs: the scale filter's size and the multipliers
ScaledFrame(inputWidth, inputHeight) ==
    IF inputWidth > inputHeight
    THEN [scale |-> <<outputWidth, (outputHeight * inputHeight) \div inputWidth>>,
          xMultiplier |-> One,
          yMultiplier |-> Fraction(outputHeight * inputWidth,
                                   outputHeight * inputHeight)]
    ELSE IF inputWidth < inputHeight
    THEN [scale |-> <<(outputWidth * inputWidth) \div inputHeight, outputHeight>>,
          xMultiplier |-> Fraction(outputWidth * inputHeight,
                                   outputWidth * inputWidth),
          yMultiplier |-> One]
    ELSE [scale |-> <<outputWidth, outputHeight>>, xMultiplier |-> One,
          yMultiplier |-> One]

\* generateFFmpegArgs(config, size), size being inputWidth x inputHeight
GenerateFFmpegArgs(inputWidth, inputHeight) ==
    /\ apc = "addon"
    /\ inputSize' = <<inputWidth, inputHeight>>
    /\ ffargs' =
           IF inputWidth < outputWidth
           THEN [NoArgs EXCEPT !.err = "input width is less than output width"]
           ELSE IF inputHeight < outputHeight
           THEN [NoArgs EXCEPT !.err = "input height is less than output height"]
           ELSE LET f == ScaledFrame(inputWidth, inputHeight)
                IN  [scale |-> f.scale,
                     pad |-> <<outputWidth, outputHeight, 0, 0>>,
                     xMultiplier |-> f.xMultiplier,
                     yMultiplier |-> f.yMultiplier,
                     err |-> NoErr]
    /\ apc' = "done"
    /\ UNCHANGED <<othersArgs, outputWidth, outputHeight>>

\* generateFFmpegArgs: the size does not parse
GenerateFFmpegArgsErr ==
    /\ apc = "addon"
    /\ ffargs' = [NoArgs EXCEPT !.err = "could not get input width"]
    /\ apc' = "done"
    /\ UNCHANGED <<othersArgs, outputWidth, outputHeight, inputSize>>

NextArgs ==
    \/ \E w \in OutputExtents, h \in OutputExtents : NewAddon(w, h)
    \/ \E w \in InputExtents, h \in InputExtents : GenerateFFmpegArgs(w, h)
    \/ GenerateFFmpegArgsErr

SpecArgs == Init /\ [][NextArgs]_vars

(***************************************************************************)
(* C16: for an input no smaller than the detector's size on both axes, the *)
(* scaled frame has the input's ratio of width to height up to integer     *)
(* truncation, fits the pad box with one axis equal to the box's, and each *)
(* multiplier is the box's extent divided by the scaled extent: 1 on the   *)
(* axis that is not padded, at least 1 on the padded one, both 1 for a     *)
(* square input.                                                           *)
(***************************************************************************)
C16_IsOne(m) == m.num = m.den

\* m is box / scaled, scaled being known up to its truncation
C16_Inverse(m, box, scaled) ==
    /\ m.num >= m.den
    /\ scaled * m.num <= box * m.den
    /\ box * m.den < (scaled + 1) * m.num

C16_AspectPreserved ==
    (apc = "done" /\ ffargs.err = NoErr) =>
        LET iw == inputSize[1]
            ih == inputSize[2]
            fw == ffargs.scale[1]
            fh == ffargs.scale[2]
        IN  /\ IF iw >= ih THEN fh = (fw * ih) \div iw ELSE fw = (fh * iw) \div ih
            /\ fw <= outputWidth /\ fh <= outputHeight
            /\ fw = outputWidth \/ fh = outputHeight
            /\ ffargs.pad = <<outputWidth, outputHeight, 0, 0>>
            /\ iw >= ih => C16_IsOne(ffargs.xMultiplier)
            /\ iw <= ih => C16_IsOne(ffargs.yMultiplier)
            /\ iw > ih => C16_Inverse(ffargs.yMultiplier, outputHeight, fh)
            /\ iw < ih => C16_Inverse(ffargs.xMultiplier, outputWidth, fw)


(***************************************************************************)
(* getKeyframeDuration (package ffmpeg) and the playlists it is given.     *)
(***************************************************************************)
DigitChars == <<"0", "1", "2", "3", "4", "5", "6", "7", "8", "9">>

\* the decimal digits of n
RECURSIVE Itoa(_)
Itoa(n) ==
    IF n < 10
    THEN <<DigitChars[n + 1]>>
    ELSE Itoa(n \div 10) \o <<DigitChars[(n % 10) + 1]>>

\* the decimal digits of n, with zeros in front up to a width
RECURSIVE ZeroPad(_, _)
ZeroPad(digits, width) ==
    IF Len(digits) >= width THEN digits ELSE ZeroPad(<<"0">> \o digits, width)

\* "#EXTINF:<seconds>.<6 fraction digits>,"
ExtinfLine(sec, frac) ==
    <<"#", "E", "X", "T", "I", "N", "F", ":">> \o Itoa(sec) \o <<".">>
        \o ZeroPad(Itoa(frac), 6) \o <<",">>

\* the line before the last line of a playlist
KeyLine(kind, sec, frac) ==
    CASE kind = "extinf" -> ExtinfLine(sec, frac)
      [] kind = "short" -> <<"#", "E", "X", "T", "I", "N", "F", ":">> \o Itoa(sec)
      [] kind = "letters" ->
             <<"#", "E", "X", "T", "I", "N", "F", ":", "x">> \o Itoa(sec) \o <<".">>
                 \o ZeroPad(Itoa(frac), 6) \o <<",">>

\* the text of a playlist
PlaylistText(layout, line) ==
    CASE layout = "full" ->
             <<"#", "E", "X", "T", "M", "3", "U", "\n">> \o line
                 \o <<"\n", "1", "1", ".", "t", "s", "\n">>
      [] layout = "bare" -> line \o <<"\n", "1", "1", ".", "t", "s">>
      [] layout = "single" -> line \o <<"\n">>
      [] layout = "empty" -> <<>>

\* unicode.IsSpace, for the characters of the model
IsSpace(c) == c \in {" ", "\n", "\t", "\r"}

\* strings.TrimSpace
RECURSIVE TrimSpace(_)
TrimSpace(s) ==
    IF s = <<>> THEN s
    ELSE IF IsSpace(Head(s)) THEN TrimSpace(Tail(s))
    ELSE IF IsSpace(s[Len(s)]) THEN TrimSpace(SubSeq(s, 1, Len(s) - 1))
    ELSE s

\* strings.Split(s, sep), sep being one character
RECURSIVE Split(_, _)
Split(s, sep) ==
    IF \A i \in DOMAIN s : s[i] # sep
    THEN <<s>>
    ELSE LET i == CHOOSE k \in DOMAIN s :
                      s[k] = sep /\ \A j \in 1..(k - 1) : s[j] # sep
         IN  <<SubSeq(s, 1, i - 1)>> \o Split(SubSeq(s, i + 1, Len(s)), sep)

\* strings.ReplaceAll(s, old, ""), old being one character
ReplaceAll(s, old) == SelectSeq(s, LAMBDA c : c # old)

IsDigit(c) == \E d \in DOMAIN DigitChars : DigitChars[d] = c
DigitOf(c) == (CHOOSE d \in DOMAIN DigitChars : DigitChars[d] = c) - 1

RECURSIVE DigitsValue(_, _)
DigitsValue(s, acc) ==
    IF s = <<>> THEN acc ELSE DigitsValue(Tail(s), 10 * acc + DigitOf(Head(s)))

\* strconv.Atoi: an optional sign and decimal digits
Atoi(s) ==
    LET signed == s # <<>> /\ Head(s) \in {"+", "-"}
        digits == IF signed THEN Tail(s) ELSE s
    IN  IF digits = <<>> \/ \E i \in DOMAIN digits : ~IsDigit(digits[i])
        THEN [ok |-> FALSE, val |-> 0]
        ELSE [ok |-> TRUE,
              val |-> IF signed /\ Head(s) = "-"
                      THEN 0 - DigitsValue(digits, 0)
                      ELSE DigitsValue(digits, 0)]

\* getKeyframeDuration, the file read
KeyframeDuration(m3u8) ==
    LET lines == Split(TrimSpace(m3u8), "\n")
    IN  IF Len(lines) < 2
        THEN [duration |-> 0, err |-> "too few lines"]
        ELSE LET keyframeLine == ReplaceAll(lines[Len(lines) - 1], ".")
             IN  IF Len(keyframeLine) < 12
                 THEN [duration |-> 0, err |-> "invalid line"]
                 ELSE LET keyframeInterval == Atoi(SubSeq(keyframeLine, 9, 12))
                      IN  IF ~keyframeInterval.ok
                          THEN [duration |-> 0, err |-> "invalid syntax"]
                          ELSE [duration |-> keyframeInterval.val, err |-> NoErr]

\* the muxer writes the playlist
WritePlaylist(layout, kind, sec, frac) ==
    /\ kpc = "new"
    /\ kfInput' = [layout |-> layout, kind |-> kind, sec |-> sec, frac |-> frac]
    /\ playlist' = PlaylistText(layout, KeyLine(kind, sec, frac))
    /\ kpc' = "written"
    /\ UNCHANGED <<othersKf, kfResult>>

\* getKeyframeDuration(hlsPath)
GetKeyframeDuration ==
    /\ kpc = "written"
    /\ kfResult' = KeyframeDuration(playlist)
    /\ kpc' = "done"
    /\ UNCHANGED <<othersKf, kfInput, playlist>>

\* getKeyframeDuration(hlsPath): ioutil.ReadFile returns an error
GetKeyframeDurationErr ==
    /\ kpc \in {"new", "written"}
    /\ kfResult' = [duration |-> 0, err |-> "no such file"]
    /\ kpc' = "done"
    /\ UNCHANGED <<othersKf, kfInput, playlist>>

NextKf ==
    \/ \E layout \in Layouts \ {"empty"}, kind \in LineKinds, sec \in 0..MaxSeconds,
          frac \in Fractions : WritePlaylist(layout, kind, sec, frac)
    \/ WritePlaylist("empty", "short", 0, 0)
    \/ GetKeyframeDuration
    \/ GetKeyframeDurationErr

SpecKf == Init /\ [][NextKf]_vars

(***************************************************************************)
(* C17: for a playlist whose line before the last is                       *)
(* "#EXTINF:<seconds>.<6 fraction digits>," getKeyframeDuration returns    *)
(* seconds*1000 + the first three fraction digits, in milliseconds, for    *)
(* every number of seconds; it returns an error and zero for a playlist of *)
(* fewer than 2 lines and for a line that is too short or not numeric.     *)
(***************************************************************************)
C17_KeyframeDuration ==
    (kpc = "done" /\ kfResult.err # "no such file") =>
        IF kfInput.layout \in {"full", "bare"} /\ kfInput.kind = "extinf"
        THEN /\ kfResult.err = NoErr
             /\ kfResult.duration = kfInput.sec * 1000 + kfInput.frac \div 1000
        ELSE /\ kfResult.err # NoErr
             /\ kfResult.duration = 0


(***************************************************************************)
(* ServerStream (package gortsplib): the reader sets, Close and            *)
(* WritePacketRTP.  Lock, the statements under it and Unlock are one step: *)
(* the write lock is never held from one step to the next.                 *)
(***************************************************************************)
\* a panic ends the process
StreamAlive == stlife # "panic"

\* st.mutex.Lock(): no read lock is held
MutexLockAlways == TRUE

MutexLock == stmutex = 0

\* readerAdd: the assignment to an entry of st.readers panics when the map
\* is nil
StreamReaderAdd(ss) ==
    /\ StreamAlive
    /\ MutexLock
    /\ IF stlife = "closed"
       THEN stlife' = "panic" /\ UNCHANGED readers
       ELSE readers' = readers \cup {ss} /\ UNCHANGED stlife
    /\ UNCHANGED <<othersStream, readersUnicast, ssClosed, stmutex, stTracks,
                   stCalls, written, received>>

\* readerRemove
StreamReaderRemove(ss) ==
    /\ StreamAlive
    /\ MutexLock
    /\ readers' = readers \ {ss}
    /\ UNCHANGED <<othersStream, readersUnicast, stlife, ssClosed, stmutex,
                   stTracks, stCalls, written, received>>

\* readerSetActive: the assignment to an entry of st.readersUnicast panics
\* when the map is nil
ReaderSetActive(ss) ==
    /\ StreamAlive
    /\ MutexLock
    /\ IF stlife = "closed"
       THEN stlife' = "panic" /\ UNCHANGED readersUnicast
       ELSE readersUnicast' = readersUnicast \cup {ss} /\ UNCHANGED stlife
    /\ UNCHANGED <<othersStream, readers, ssClosed, stmutex, stTracks, stCalls,
                   written, received>>

\* readerSetInactive
ReaderSetInactive(ss) ==
    /\ StreamAlive
    /\ MutexLock
    /\ readersUnicast' = readersUnicast \ {ss}
    /\ UNCHANGED <<othersStream, readers, stlife, ssClosed, stmutex, stTracks,
                   stCalls, written, received>>

\* ServerSession.Close()
ServerSessionClose(closed, ss) == [closed EXCEPT ![ss] = @ + 1]

\* Close: for ss := range st.readers { ss.Close() }
RECURSIVE CloseReaders(_, _)
CloseReaders(closed, rs) ==
    IF rs = {}
    THEN closed
    ELSE LET ss == CHOOSE x \in rs : TRUE
         IN  CloseReaders(ServerSessionClose(closed, ss), rs \ {ss})

\* Close: the sessions are closed and both maps are set to nil
StreamClose ==
    /\ StreamAlive
    /\ MutexLock
    /\ ssClosed' = CloseReaders(ssClosed, readers)
    /\ readers' = {}
    /\ readersUnicast' = {}
    /\ stlife' = "closed"
    /\ UNCHANGED <<othersStream, stmutex, stTracks, stCalls, written, received>>

\* the sequence number of the next packet written to the stream
RECURSIVE PacketsOf(_)
PacketsOf(ts) ==
    IF ts = {}
    THEN 0
    ELSE LET t == CHOOSE x \in ts : TRUE
         IN  Len(written[t]) + PacketsOf(ts \ {t})

PacketsWritten == PacketsOf(Tracks)
NextSeq == PacketsWritten + 1

\* WritePacketRTP(trackID, pkt): pkt.Marshal(); the call returns if it fails
WriteMarshal(w, trackID, ok) ==
    /\ StreamAlive
    /\ wpc[w] = "idle"
    /\ PacketsWritten < MaxPackets
    /\ written' = [written EXCEPT ![trackID] = Append(@, NextSeq)]
    /\ IF ok
       THEN /\ wpkt' = [wpkt EXCEPT ![w] = Packet(trackID, NextSeq)]
            /\ wpc' = [wpc EXCEPT ![w] = "seq"]
       ELSE UNCHANGED <<wpkt, wpc>>
    /\ UNCHANGED <<othersStream, stReaders, stmutex, stTracks, todo, failed,
                   received>>

\* atomic.StoreUint32 and atomic.StoreInt64: the word of the track is
\* replaced as a whole
AtomicStoreAllTracks(word, trackID, v) == [t \in Tracks |-> v]

AtomicStore(word, trackID, v) == [word EXCEPT ![trackID] = v]

\* atomic.StoreUint32(&track.lastSequenceNumber, uint32(pkt.Header.SequenceNumber))
StoreSequenceNumber(w) ==
    /\ StreamAlive
    /\ wpc[w] = "seq"
    /\ lastSequenceNumber' = AtomicStore(lastSequenceNumber, wpkt[w].track, wpkt[w].seq)
    /\ wpc' = [wpc EXCEPT ![w] = "rtp"]
    /\ UNCHANGED <<othersStream, stReaders, stmutex, lastTimeRTP, lastTimeNTP,
                   lastSSRC, wpkt, todo, failed, written, received>>

\* atomic.StoreUint32(&track.lastTimeRTP, pkt.Header.Timestamp)
StoreTimeRTP(w) ==
    /\ StreamAlive
    /\ wpc[w] = "rtp"
    /\ lastTimeRTP' = AtomicStore(lastTimeRTP, wpkt[w].track, wpkt[w].ts)
    /\ wpc' = [wpc EXCEPT ![w] = "ntp"]
    /\ UNCHANGED <<othersStream, stReaders, stmutex, lastSequenceNumber,
                   lastTimeNTP, lastSSRC, wpkt, todo, failed, written, received>>

\* atomic.StoreInt64(&track.lastTimeNTP, now.Unix())
StoreTimeNTP(w) ==
    /\ StreamAlive
    /\ wpc[w] = "ntp"
    /\ lastTimeNTP' = AtomicStore(lastTimeNTP, wpkt[w].track, TimeNowUnix)
    /\ wpc' = [wpc EXCEPT ![w] = "ssrc"]
    /\ UNCHANGED <<othersStream, stReaders, stmutex, lastSequenceNumber,
                   lastTimeRTP, lastSSRC, wpkt, todo, failed, written, received>>

\* atomic.StoreUint32(&track.lastSSRC, pkt.Header.SSRC)
StoreSSRC(w) ==
    /\ StreamAlive
    /\ wpc[w] = "ssrc"
    /\ lastSSRC' = AtomicStore(lastSSRC, wpkt[w].track, wpkt[w].ssrc)
    /\ wpc' = [wpc EXCEPT ![w] = "stored"]
    /\ UNCHANGED <<othersStream, stReaders, stmutex, lastSequenceNumber,
                   lastTimeRTP, lastTimeNTP, wpkt, todo, failed, written, received>>

\* ssrc(trackID)
Ssrc(trackID) == lastSSRC[trackID]

\* lastSequenceNumber(trackID): the word, as a uint16
LastSequenceNumber(trackID) == lastSequenceNumber[trackID] % 65536

\* WritePacketRTP: the sessions the range loop visits
RangeOverReaders == readers

RangeOver == readersUnicast

\* WritePacketRTP: st.mutex.RLock(), the range loop begins
WriteRLock(w) ==
    /\ StreamAlive
    /\ wpc[w] = "stored"
    /\ stmutex' = stmutex + 1
    /\ todo' = [todo EXCEPT ![w] = RangeOver]
    /\ failed' = [failed EXCEPT ![w] = {}]
    /\ wpc' = [wpc EXCEPT ![w] = "loop"]
    /\ UNCHANGED <<othersStream, stReaders, stTracks, wpkt, written, received>>

\* ServerSession.writePacketRTP(trackID, byts): the packet is queued for the
\* session's writer, or the queue is full and it is not
SessionWritePacketRTP(r, trackID, seq, ok) ==
    IF ok
    THEN [received EXCEPT ![r][trackID] = Append(@, seq)]
    ELSE received

\* WritePacketRTP: the sessions left once the loop has visited r
RangeRestSame(w, r) == todo[w]

RangeRest(w, r) == todo[w] \ {r}

\* WritePacketRTP: one turn of the range loop
WriteTo(w, r, ok) ==
    /\ StreamAlive
    /\ wpc[w] = "loop"
    /\ r \in todo[w]
    /\ received' = SessionWritePacketRTP(r, wpkt[w].track, wpkt[w].seq, ok)
    /\ failed' = [failed EXCEPT ![w] = IF ok THEN @ ELSE @ \cup {r}]
    /\ todo' = [todo EXCEPT ![w] = RangeRest(w, r)]
    /\ UNCHANGED <<othersStream, stReaders, stmutex, stTracks, wpc, wpkt, written>>

\* WritePacketRTP: the loop is over, the deferred st.mutex.RUnlock()
WriteReturn(w) ==
    /\ StreamAlive
    /\ wpc[w] = "loop"
    /\ todo[w] = {}
    /\ stmutex' = stmutex - 1
    /\ wpc' = [wpc EXCEPT ![w] = "idle"]
    /\ wpkt' = [wpkt EXCEPT ![w] = NoPacket]
    /\ failed' = [failed EXCEPT ![w] = {}]
    /\ UNCHANGED <<othersStream, stReaders, stTracks, todo, written, received>>

\* one publisher writes packet after packet
NextStream ==
    \/ \E ss \in Readers : StreamReaderAdd(ss)
    \/ \E ss \in Readers : StreamReaderRemove(ss)
    \/ \E ss \in Readers : ReaderSetActive(ss)
    \/ \E ss \in Readers : ReaderSetInactive(ss)
    \/ StreamClose
    \/ \E trackID \in Tracks, ok \in BOOLEAN : WriteMarshal(Publisher, trackID, ok)
    \/ StoreSequenceNumber(Publisher)
    \/ StoreTimeRTP(Publisher)
    \/ StoreTimeNTP(Publisher)
    \/ StoreSSRC(Publisher)
    \/ WriteRLock(Publisher)
    \/ \E r \in Readers, ok \in BOOLEAN : WriteTo(Publisher, r, ok)
    \/ WriteReturn(Publisher)

SpecStream == Init /\ [][NextStream]_vars

\* several goroutines call WritePacketRTP
NextWriters ==
    \/ \E ss \in Readers : StreamReaderAdd(ss)
    \/ \E ss \in Readers : StreamReaderRemove(ss)
    \/ \E ss \in Readers : ReaderSetActive(ss)
    \/ \E ss \in Readers : ReaderSetInactive(ss)
    \/ StreamClose
    \/ \E w \in Writers, trackID \in Tracks, ok \in BOOLEAN : WriteMarshal(w, trackID, ok)
    \/ \E w \in Writers : StoreSequenceNumber(w)
    \/ \E w \in Writers : StoreTimeRTP(w)
    \/ \E w \in Writers : StoreTimeNTP(w)
    \/ \E w \in Writers : StoreSSRC(w)
    \/ \E w \in Writers : WriteRLock(w)
    \/ \E w \in Writers, r \in Readers, ok \in BOOLEAN : WriteTo(w, r, ok)
    \/ \E w \in Writers : WriteReturn(w)

SpecWriters == Init /\ [][NextWriters]_vars

(***************************************************************************)
(* C18: with one publisher writing packet after packet, what a reader has  *)
(* received of a track is a subsequence of what the publisher wrote to it: *)
(* in the order written, each packet at most once.                         *)
(***************************************************************************)
RECURSIVE C18_IsSubseq(_, _)
C18_IsSubseq(a, b) ==
    IF a = <<>> THEN TRUE
    ELSE IF b = <<>> THEN FALSE
    ELSE IF Head(a) = Head(b) THEN C18_IsSubseq(Tail(a), Tail(b))
    ELSE C18_IsSubseq(a, Tail(b))

C18_InOrder ==
    \A r \in Readers, t \in Tracks : C18_IsSubseq(received[r][t], written[t])

C18_Witness ==
    \E r1 \in Readers, r2 \in Readers, t \in Tracks :
        /\ Len(written[t]) = 2
        /\ received[r1][t] = written[t]
        /\ received[r2][t] = <<written[t][2]>>

(***************************************************************************)
(* C19: a call of WritePacketRTP whose packet marshals hands the packet to *)
(* every session active during the call and to no other; a session whose   *)
(* delivery fails changes nothing for the others, and the reader sets are  *)
(* as they were.                                                           *)
(***************************************************************************)
C19_Has(r) ==
    /\ received[r][wpkt[Publisher].track] # <<>>
    /\ received[r][wpkt[Publisher].track][Len(received[r][wpkt[Publisher].track])]
         = wpkt[Publisher].seq

C19_Delivered ==
    wpc[Publisher] = "loop" =>
        /\ todo[Publisher] \subseteq readersUnicast
        /\ failed[Publisher] \subseteq readersUnicast \ todo[Publisher]
        /\ \A r \in Readers :
              C19_Has(r) <=> r \in (readersUnicast \ todo[Publisher]) \ failed[Publisher]

C19_CallStep ==
    /\ wpc[Publisher] = "loop" => readers' = readers /\ readersUnicast' = readersUnicast
    /\ (wpc[Publisher] = "loop" /\ wpc'[Publisher] = "idle") => todo[Publisher] = {}
    /\ (wpc[Publisher] # "loop" /\ wpc'[Publisher] # "loop") => received' = received
    /\ (wpc[Publisher] = "stored" /\ wpc'[Publisher] = "loop") =>
          \A r \in Readers : ~C19_Has(r)'

C19_FanOut == []C19_Delivered /\ [][C19_CallStep]_vars

C19_Witness ==
    /\ wpc[Publisher] = "loop"
    /\ todo[Publisher] = {}
    /\ readers = Readers
    /\ readersUnicast # {}
    /\ failed[Publisher] # {}
    /\ readersUnicast \ failed[Publisher] # {}

(***************************************************************************)
(* C24: the active sessions are attached sessions: readersUnicast is a     *)
(* subset of readers, whatever calls of readerAdd, readerRemove,           *)
(* readerSetActive and readerSetInactive were made; a session that was     *)
(* removed is in neither set.                                              *)
(***************************************************************************)
C24_ActiveAttached == readersUnicast \subseteq readers

(***************************************************************************)
(* C25: while a call of WritePacketRTP holds the read lock, no call of     *)
(* readerAdd, readerRemove, readerSetActive, readerSetInactive or Close    *)
(* changes the sets, and several calls of WritePacketRTP may hold it at    *)
(* once.  A call visits the sessions that were active when it took the     *)
(* read lock: a packet reaches a session only while the session is active, *)
(* and when the call returns every active session has been visited.        *)
(***************************************************************************)
C25_Fanning == {w \in Writers : wpc[w] = "loop"}

C25_Got(w, r) ==
    \E i \in 1..Len(received[r][wpkt[w].track]) :
        received[r][wpkt[w].track][i] = wpkt[w].seq

C25_Locked ==
    /\ stmutex = Cardinality(C25_Fanning)
    /\ \A w \in C25_Fanning :
          /\ todo[w] \subseteq readersUnicast
          /\ \A r \in Readers :
                C25_Got(w, r) <=> r \in (readersUnicast \ todo[w]) \ failed[w]

C25_Step ==
    /\ C25_Fanning # {} => UNCHANGED stReaders
    /\ \A w \in Writers :
          wpc[w] # "loop" /\ wpc'[w] = "loop" => todo'[w] = readersUnicast
    /\ \A w \in Writers :
          wpc[w] = "loop" /\ wpc'[w] # "loop" => todo[w] = {}
    /\ \A r \in Readers :
          received'[r] # received[r] =>
              \E w \in C25_Fanning : r \in todo[w] /\ r \in readersUnicast

C25_NoOverlap == []C25_Locked /\ [][C25_Step]_vars

\* two calls fan out at once, and one of them has handed its packet over
C25_Witness ==
    /\ C25_Fanning = Writers
    /\ stmutex = 2
    /\ \E w \in Writers, r \in readersUnicast : C25_Got(w, r) /\ todo[w] = {}
    /\ \E w \in Writers : todo[w] # {}

(***************************************************************************)
(* C28: a call of WritePacketRTP whose packet marshals stores the packet's *)
(* sequence number, timestamp and SSRC in the words of the packet's track, *)
(* also when no session is active, and leaves the words of the other       *)
(* tracks alone; a word holds 0 or what a packet written to the track      *)
(* carried, and so does what ssrc and lastSequenceNumber return; a call    *)
(* whose packet does not marshal changes no word and reaches no session.   *)
(***************************************************************************)
C28_Seqs(t) == {0} \cup {written[t][i] : i \in 1..Len(written[t])}

C28_Stored ==
    /\ wpc[Publisher] \in {"stored", "loop"} =>
          /\ lastSequenceNumber[wpkt[Publisher].track] = wpkt[Publisher].seq
          /\ lastTimeRTP[wpkt[Publisher].track] = wpkt[Publisher].ts
          /\ lastSSRC[wpkt[Publisher].track] = wpkt[Publisher].ssrc
    /\ \A t \in Tracks :
          /\ lastSequenceNumber[t] \in C28_Seqs(t)
          /\ LastSequenceNumber(t) \in C28_Seqs(t)
          /\ lastTimeRTP[t] \in {Packet(t, q).ts : q \in C28_Seqs(t)}
          /\ lastSSRC[t] \in {0, Packet(t, lastSequenceNumber[t]).ssrc}
          /\ Ssrc(t) = lastSSRC[t]

C28_Step ==
    /\ \A t \in Tracks :
          <<lastSequenceNumber[t], lastTimeRTP[t], lastTimeNTP[t], lastSSRC[t]>>'
            # <<lastSequenceNumber[t], lastTimeRTP[t], lastTimeNTP[t], lastSSRC[t]>> =>
              wpc[Publisher] \in {"seq", "rtp", "ntp", "ssrc"} /\ wpkt[Publisher].track = t
    /\ (written' # written /\ wpc'[Publisher] = "idle") =>
          UNCHANGED <<stTracks, received>>
    /\ (wpc[Publisher] = "idle" /\ wpc'[Publisher] # "idle") =>
          wpkt'[Publisher].seq = NextSeq /\ written' # written

C28_Counters == []C28_Stored /\ [][C28_Step]_vars

\* the second packet, of track 1, is stored while no session is active; the
\* words of track 0 are those of the first packet
C28_Witness ==
    /\ wpc[Publisher] = "stored"
    /\ readersUnicast = {}
    /\ wpkt[Publisher] = Packet(1, 2)
    /\ lastSequenceNumber = [t \in Tracks |-> t + 1]
    /\ lastSSRC = [t \in Tracks |-> Packet(t, 1).ssrc]
    /\ lastTimeRTP[0] = Packet(0, 1).ts

(***************************************************************************)
(* C31: Close is the end of the stream and later calls are safe.  No call  *)
(* made after Close faults; a closed stream has no attached and no active  *)
(* session, and Close has closed a session at most once.                   *)
(***************************************************************************)
C31_CloseTerminal ==
    /\ stlife # "panic"
    /\ stlife = "closed" => readers = {} /\ readersUnicast = {}
    /\ \A ss \in Readers : ssClosed[ss] <= 1

(***************************************************************************)
(* hookList (package nvr): registration, and the functions that            *)
(* hookList.monitor() returns.                                             *)
(***************************************************************************)
Registered == Len(monitorStart) + Len(monitorMainProcess) + Len(monitorSubProcess)

\* the registrations are made by the init functions of the addons, one
\* after the other, and not while hooks run
CanRegister == hkind = "none" /\ Registered < MaxRegistered

\* RegisterMonitorStartHook
RegisterMonitorStartHook(h) ==
    /\ CanRegister
    /\ monitorStart' = Append(monitorStart, h)
    /\ UNCHANGED <<othersHooks, monitorMainProcess, monitorSubProcess, hkind,
                   henabled, hsnap, hrest, hrunning, hran, hargs>>

\* RegisterMonitorMainProcessHook
RegisterMonitorMainProcessHook(h) ==
    /\ CanRegister
    /\ monitorMainProcess' = Append(monitorMainProcess, h)
    /\ UNCHANGED <<othersHooks, monitorStart, monitorSubProcess, hkind, henabled,
                   hsnap, hrest, hrunning, hran, hargs>>

\* RegisterMonitorSubProcessHook
RegisterMonitorSubProcessHook(h) ==
    /\ CanRegister
    /\ monitorSubProcess' = Append(monitorSubProcess, h)
    /\ UNCHANGED <<othersHooks, monitorStart, monitorMainProcess, hkind, henabled,
                   hsnap, hrest, hrunning, hran, hargs>>

\* the slice a function of hookList.monitor() ranges over
HooksOf(kind) ==
    CASE kind = "start" -> monitorStart
      [] kind = "main" -> monitorMainProcess
      [] kind = "sub" -> monitorSubProcess

\* startHook, startMainHook or startSubHook is called for a monitor whose
\* config enables some of the hooks: the range loop begins
CallHooks(kind, enabled) ==
    /\ hkind = "none"
    /\ hkind' = kind
    /\ henabled' = enabled
    /\ hsnap' = HooksOf(kind)
    /\ hrest' = HooksOf(kind)
    /\ hran' = <<>>
    /\ hargs' = <<>>
    /\ UNCHANGED <<othersHooks, monitorStart, monitorMainProcess, monitorSubProcess,
                   hrunning>>

\* for _, hook := range: the next hook and the hooks after it
RangeNextLast(rest) ==
    [hook |-> rest[Len(rest)], rest |-> SubSeq(rest, 1, Len(rest) - 1)]

RangeNext(rest) == [hook |-> Head(rest), rest |-> Tail(rest)]

\* hook(ctx, m) or hook(ctx, m, args) is called
HookCall ==
    /\ hkind # "none"
    /\ hrunning = NoHook
    /\ hrest # <<>>
    /\ hrunning' = RangeNext(hrest).hook
    /\ hrest' = RangeNext(hrest).rest
    /\ UNCHANGED <<othersHooks, monitorStart, monitorMainProcess, monitorSubProcess,
                   hkind, henabled, hsnap, hran, hargs>>

\* what a hook appends to *args: its fragment if the monitor enables it
\* (main and sub of package doods: *args += genArgs(m)), and nothing if not
Fragment(h, enabled) == IF h \in enabled THEN <<h>> ELSE <<>>

\* the hook returns
HookReturn ==
    /\ hrunning # NoHook
    /\ hargs' = IF hkind = "start"
                THEN hargs
                ELSE hargs \o Fragment(hrunning, henabled)
    /\ hran' = Append(hran, hrunning)
    /\ hrunning' = NoHook
    /\ UNCHANGED <<othersHooks, monitorStart, monitorMainProcess, monitorSubProcess,
                   hkind, henabled, hsnap, hrest>>

\* the range loop is over: startHook, startMainHook or startSubHook returns
HooksDone ==
    /\ hkind # "none"
    /\ hrunning = NoHook
    /\ hrest = <<>>
    /\ hkind' = "none"
    /\ UNCHANGED <<othersHooks, monitorStart, monitorMainProcess, monitorSubProcess,
                   henabled, hsnap, hrest, hrunning, hran, hargs>>

NextHooks ==
    \/ \E h \in HookIds : RegisterMonitorStartHook(h)
    \/ \E h \in HookIds : RegisterMonitorMainProcessHook(h)
    \/ \E h \in HookIds : RegisterMonitorSubProcessHook(h)
    \/ \E kind \in HookKinds, enabled \in SUBSET HookIds : CallHooks(kind, enabled)
    \/ HookCall
    \/ HookReturn
    \/ HooksDone

SpecHooks == Init /\ [][NextHooks]_vars

RECURSIVE C20_Concat(_)
C20_Concat(hs) ==
    IF hs = <<>>
    THEN <<>>
    ELSE (IF Head(hs) \in henabled THEN <<Head(hs)>> ELSE <<>>) \o C20_Concat(Tail(hs))

C20_InOrder ==
    /\ hran \o (IF hrunning = NoHook THEN <<>> ELSE <<hrunning>>) \o hrest = hsnap
    /\ hkind \in {"main", "sub"} => hargs = C20_Concat(hran)
    /\ hkind = "start" => hargs = <<>>
    /\ hkind # "none" => hsnap = HooksOf(hkind)

C20_Appends(list, list2) ==
    \/ list2 = list
    \/ Len(list2) = Len(list) + 1 /\ SubSeq(list2, 1, Len(list)) = list

C20_Step ==
    /\ C20_Appends(monitorStart, monitorStart')
    /\ C20_Appends(monitorMainProcess, monitorMainProcess')
    /\ C20_Appends(monitorSubProcess, monitorSubProcess')
    /\ (hkind # "none" /\ hkind' = "none") =>
           /\ hran = HooksOf(hkind)
           /\ hkind # "start" => hargs' = C20_Concat(HooksOf(hkind))
    /\ (hrunning # NoHook /\ hrunning' # hrunning) => hrunning' = NoHook

(***************************************************************************)
(* C20: the hooks of a call run in the order of their registration, one at *)
(* a time, each returning before the next is called; the args of a main or *)
(* sub call are the hooks' fragments in that order; a registration appends *)
(* to its list and changes nothing else of the lists.                      *)
(***************************************************************************)
C20_HooksInOrder == []C20_InOrder /\ [][C20_Step]_vars

C20_Witness ==
    /\ hkind = "main"
    /\ hrunning = NoHook
    /\ hrest = <<>>
    /\ monitorMainProcess = <<2, 1>>
    /\ hran = <<2, 1>>
    /\ hargs = <<2, 1>>

(***************************************************************************)
(* C23: the operations of the path manager and the removal goroutines      *)
(* exclude one another: at most one of them is between its Lock and its    *)
(* Unlock, and it is the one the mutex records.  Every call computes its   *)
(* result in one step inside its critical section, the registry changes    *)
(* only in a step of the holder of the mutex, and no caller takes a step   *)
(* while a removal goroutine is between its statements: the execution is   *)
(* that of the critical sections one after the other, in the order of the  *)
(* Lock calls, each of which lies within its call.                         *)
(***************************************************************************)
C23_InCS(t) == pc[t] \in {"body", "unlock"}

C23_Removing == {g \in rms : g.pc \in {"A", "B", "C", "D"}}

C23_Exclusive ==
    /\ \A t, u \in Callers : C23_InCS(t) /\ C23_InCS(u) => t = u
    /\ \A g, h \in C23_Removing : g = h
    /\ \A t \in Callers : C23_InCS(t) <=> mu = MuCaller(t)
    /\ \A g \in C23_Removing : mu = MuRemove(g.name)
    /\ mu[1] = "rm" => C23_Removing # {}

C23_Step ==
    /\ \A t \in Callers :
          ret'[t] # ret[t] /\ pc'[t] = "unlock" => pc[t] = "body" /\ mu = MuCaller(t)
    /\ (pathConfs' # pathConfs \/ DOMAIN paths' # DOMAIN paths) =>
          \/ \E t \in Callers : mu = MuCaller(t) /\ Does(t, "AddPath")
          \/ \E g \in rms : g.pc \in {"A", "C"} /\ mu = MuRemove(g.name) /\ g \notin rms'
    /\ mu[1] = "rm" => pc' = pc /\ ret' = ret

C23_Linearizable == []C23_Exclusive /\ [][C23_Step]_vars

\* a call is in its critical section while a removal goroutine of the same
\* name waits for the mutex
C23_Witness ==
    \E t \in Callers, g \in rms :
        /\ g.pc = "lock"
        /\ mu = MuCaller(t)
        /\ Did(t, "pathExist")
        /\ op[t].name = g.name
        /\ ret[t].ok

(***************************************************************************)
(* C29: an AddPath call that returns an error changes neither map and      *)
(* starts no removal goroutine; a removal goroutine is started only by a   *)
(* successful call, for that call's name and context, and leaves its wait  *)
(* only when that context is cancelled: a registration whose own context   *)
(* is not cancelled stays registered and open, whatever other contexts     *)
(* are cancelled.                                                          *)
(***************************************************************************)
C29_FailedStep ==
    \A t \in Callers :
        Does(t, "AddPath") /\ ret'[t].err # NoErr =>
            UNCHANGED <<pathConfs, paths, rms>>

C29_StartedStep ==
    \A g \in rms' \ rms :
        g.pc = "wait" =>
            \E t \in Callers :
                /\ Does(t, "AddPath")
                /\ ret'[t].err = NoErr
                /\ g = Removal(op[t].name, op[t].ctx)

C29_Intact ==
    \A g \in rms :
        /\ g.pc \notin {"wait", "done"} => g.ctx \in ctxDone
        /\ g.pc = "wait" /\ g.ctx \notin ctxDone =>
              /\ g.name \in pathConfs
              /\ g.name \in DOMAIN paths
              /\ paths[g.name].closed = 0
              /\ LiveRemovals(g.name) = {g}

C29_FailedAddPath == []C29_Intact /\ [][C29_FailedStep /\ C29_StartedStep]_vars

\* a duplicate AddPath has been rejected and its context is cancelled; the
\* registration of the name, made with another context, is live
C29_Witness ==
    \E t \in Callers, g \in rms :
        /\ Did(t, "AddPath")
        /\ ret[t].err = ErrPathAlreadyExist
        /\ op[t].ctx \in ctxDone
        /\ g = Removal(op[t].name, g.ctx)
        /\ g.ctx \notin ctxDone
        /\ op[t].name \in pathConfs

(***************************************************************************)
(* C30: while no removal goroutine holds the mutex the two maps have the   *)
(* same names, so pathExist finds a name exactly when onDescribe,          *)
(* publisherAdd and readerAdd find its path; a removal goroutine finds the *)
(* path of its own registration: the entry is there, it is not closed      *)
(* before the goroutine closes it, and the name has no other registration; *)
(* once the removal is over, AddPath of the name succeeds again.           *)
(***************************************************************************)
C30_SameNames ==
    /\ mu[1] # "rm" => pathConfs = DOMAIN paths
    /\ \A g \in rms :
          /\ g.pc # "panic"
          /\ g.pc \in {"wait", "lock", "A", "B"} =>
                /\ g.name \in DOMAIN paths
                /\ paths[g.name].closed = 0
                /\ LiveRemovals(g.name) = {g}

C30_Step ==
    /\ \A t \in Callers :
          Does(t, "pathExist") =>
              ret'[t].ok = (op[t].name \in DOMAIN paths)
    /\ \A t \in Callers :
          Does(t, "AddPath") /\ op[t].confOk /\ ~Live(op[t].name) =>
              /\ ret'[t].err = NoErr
              /\ op[t].name \in pathConfs'
              /\ paths'[op[t].name] = newPath
    /\ \A n \in Names :
          n \in DOMAIN paths /\ n \in DOMAIN paths' /\ paths'[n].closed # paths[n].closed =>
              \E g \in rms : g.name = n /\ g.pc = "B" /\ paths'[n].closed = 1

C30_MapsAgree == []C30_SameNames /\ [][C30_Step]_vars

\* the removal of "p" is over and AddPath of "p" is called again, while
\* another name is registered
C30_Witness ==
    \E t \in Callers :
        /\ Finished("p") \in rms
        /\ Body(t, "AddPath")
        /\ op[t].name = "p"
        /\ op[t].confOk
        /\ pathConfs = {"mypath"}

(***************************************************************************)
(* main, sub and start (package doods): the start of a monitor's bridge.   *)
(* A panic in a hook is not recovered: the process exits.                  *)
(***************************************************************************)
BridgeUnchanged(changed) ==
    /\ UNCHANGED othersBridge
    /\ "bconf" \in changed \/ UNCHANGED bconf
    /\ "bpc" \in changed \/ UNCHANGED bpc
    /\ "bargs" \in changed \/ UNCHANGED bargs
    /\ "berr" \in changed \/ UNCHANGED berr
    /\ "bwg" \in changed \/ UNCHANGED bwg
    /\ "bgo" \in changed \/ UNCHANGED bgo
    /\ "bcrashed" \in changed \/ UNCHANGED bcrashed

\* the hook is at position at and the process is alive
HookAt(m, h, at) == ~bcrashed /\ bpc[m][h] = at

\* start returns err: the hook logs it and returns
StartFails(m, h, err) ==
    /\ berr' = [berr EXCEPT ![m][h] = err]
    /\ bpc' = [bpc EXCEPT ![m][h] = "returned"]

\* the test of main, made by both hooks
HookSkipsAsMain(h, c) == c.doodsEnable # "true" \/ c.subInputEnabled

\* m.Config["doodsEnable"] != "true" || m.SubInputEnabled(), and the same
\* with !m.SubInputEnabled() in sub
HookSkips(h, c) ==
    \/ c.doodsEnable # "true"
    \/ IF h = "main" THEN c.subInputEnabled ELSE ~c.subInputEnabled

\* main(ctx, m, args) or sub(ctx, m, args) up to its call of start
ProcessHook(m, h, c) ==
    /\ HookAt(m, h, "idle")
    /\ bconf[m] \in {NoConfig, c}
    /\ bconf' = [bconf EXCEPT ![m] = c]
    /\ IF HookSkips(h, c)
       THEN /\ bpc' = [bpc EXCEPT ![m][h] = "returned"]
            /\ UNCHANGED bargs
       ELSE /\ bpc' = [bpc EXCEPT ![m][h] = "detector"]
            /\ bargs' = [bargs EXCEPT ![m][h] = @ + 1]
    /\ BridgeUnchanged({"bconf", "bpc", "bargs"})

\* start: detectorByName(m.Config["doodsDetectorName"])
DetectorByName(m, h) ==
    /\ HookAt(m, h, "detector")
    /\ IF bconf[m].doodsDetectorName = "default"
       THEN bpc' = [bpc EXCEPT ![m][h] = "config"] /\ UNCHANGED berr
       ELSE StartFails(m, h, "could not get detectory")
    /\ BridgeUnchanged({"bpc", "berr"})

\* strconv.ParseFloat on the characters used here: a string of one or more
\* digits parses, every other string is an error
ParseFloat(s) ==
    IF s # <<>> /\ \A i \in DOMAIN s : IsDigit(s[i])
    THEN [err |-> FALSE, value |-> DigitsValue(s, 0)]
    ELSE [err |-> TRUE, value |-> 0]

\* parseConfig(m, doodsIP): the error it returns, "" for none
ParseConfigError(c) ==
    IF c.doodsThresholds # "{}" THEN "could not unmarshal thresholds"
    ELSE IF ParseFloat(c.doodsFeedRate).err THEN "could not parse feed rate"
    ELSE IF ParseFloat(c.doodsDuration).err THEN "could not parse doodsDuration"
    ELSE IF ~Atoi(c.timestampOffset).ok THEN "could not parse timestamp offset"
    ELSE ""

\* start: parseConfig(m, doodsIP) and newAddon(m, config, detector)
StartParseConfig(m, h) ==
    /\ HookAt(m, h, "config")
    /\ IF ParseConfigError(bconf[m]) = ""
       THEN bpc' = [bpc EXCEPT ![m][h] = "env"] /\ UNCHANGED berr
       ELSE StartFails(m, h, ParseConfigError(bconf[m]))
    /\ BridgeUnchanged({"bpc", "berr"})

\* start: a.prepareEnvironment() makes the directory and the pipe, or fails
PrepareEnvironment(m, h, ok) ==
    /\ HookAt(m, h, "env")
    /\ IF ok
       THEN bpc' = [bpc EXCEPT ![m][h] = "args"] /\ UNCHANGED berr
       ELSE StartFails(m, h, "could not prepare environment")
    /\ BridgeUnchanged({"bpc", "berr"})

\* generateFFmpegArgs(config, size) up to its checks of the size: the error
\* it returns, "" for none, "panic" when split[1] is out of range
SizeError(size, outputW, outputH) ==
    LET split == Split(size, "x")
        inputWidth == ParseFloat(split[1])
    IN  IF inputWidth.err THEN "could not get input width"
        ELSE IF Len(split) < 2 THEN "panic"
        ELSE LET inputHeight == ParseFloat(split[2])
             IN  IF inputHeight.err THEN "could not get input height"
                 ELSE IF inputWidth.value < outputW
                      THEN "input width is less than output width"
                 ELSE IF inputHeight.value < outputH
                      THEN "input height is less than output height"
                 ELSE ""

\* start: size is sizeMain or sizeSub
StartSize(c) == IF ~c.subInputEnabled THEN c.sizeMain ELSE c.sizeSub

\* start: a.generateFFmpegArgs(m.Config, size)
StartGenerateArgs(m, h) ==
    /\ HookAt(m, h, "args")
    /\ LET err == SizeError(StartSize(bconf[m]), bconf[m].detector.width,
                            bconf[m].detector.height)
       IN  CASE err = "" ->
                  /\ bpc' = [bpc EXCEPT ![m][h] = "launch"]
                  /\ UNCHANGED <<berr, bcrashed>>
             [] err = "panic" ->
                  /\ bcrashed' = TRUE
                  /\ bpc' = [bpc EXCEPT ![m][h] = "panic"]
                  /\ UNCHANGED berr
             [] OTHER ->
                  /\ StartFails(m, h, err)
                  /\ UNCHANGED bcrashed
    /\ BridgeUnchanged({"bpc", "berr", "bcrashed"})

\* start: a.wg.Add(1); go a.newFFmpeg(ffmpegArgs).start(ctx); return nil
StartBridge(m, h) ==
    /\ HookAt(m, h, "launch")
    /\ bwg' = [bwg EXCEPT ![m] = @ + 1]
    /\ bgo' = [bgo EXCEPT ![m] = @ + 1]
    /\ bpc' = [bpc EXCEPT ![m][h] = "returned"]
    /\ BridgeUnchanged({"bpc", "bwg", "bgo"})

NextBridge ==
    \/ \E m \in Monitors, h \in ProcessHooks, c \in Configs : ProcessHook(m, h, c)
    \/ \E m \in Monitors, h \in ProcessHooks : DetectorByName(m, h)
    \/ \E m \in Monitors, h \in ProcessHooks : StartParseConfig(m, h)
    \/ \E m \in Monitors, h \in ProcessHooks, ok \in BOOLEAN :
          PrepareEnvironment(m, h, ok)
    \/ \E m \in Monitors, h \in ProcessHooks : StartGenerateArgs(m, h)
    \/ \E m \in Monitors, h \in ProcessHooks : StartBridge(m, h)

SpecBridge == Init /\ [][NextBridge]_vars

(***************************************************************************)
(* C21: a config that start cannot use stops only the bridge of its        *)
(* monitor.  No hook makes the process exit; a hook that logged an error   *)
(* has returned, and if no call of start succeeded for its monitor there   *)
(* is no task of the bridge and no a.wg.Add(1) for it.                     *)
(***************************************************************************)
C21_Failed(m) == \E h \in ProcessHooks : berr[m][h] # ""

C21_ErrorIsLocal ==
    /\ ~bcrashed
    /\ \A m \in Monitors :
          C21_Failed(m) =>
             /\ \A h \in ProcessHooks : berr[m][h] # "" => bpc[m][h] = "returned"
             /\ bwg[m] = 0
             /\ bgo[m] = 0

(***************************************************************************)
(* UserSet, UserDelete and userByName of the authenticator.  A call is one *)
(* step: the store has a single mutex around its load and store.           *)
(***************************************************************************)
\* the accounts a lookup by username can return
UserByName(store, name) == {store[i] : i \in {j \in DOMAIN store : store[j].username = name}}

\* the test clears a.path: saving to the users file fails from now on
ClearPath ==
    /\ apath # ""
    /\ apath' = ""
    /\ UNCHANGED <<othersUsers, accounts, usersFile, ucalls, ulast>>

\* UserSet: the account is refused, a new id with a password included
UserSetErrorAnyPassword(store, a) ==
    IF a.id = "" THEN "missing ID"
    ELSE IF a.username = "" THEN "missing username"
    ELSE ""

\* UserSet: why the account is refused, "" if it is not
UserSetError(store, a) ==
    IF a.id = "" THEN "missing ID"
    ELSE IF a.username = "" THEN "missing username"
    ELSE IF a.id \notin DOMAIN store /\ a.rawPassword = "" THEN "password required"
    ELSE ""

\* the account UserSet stores: the password is hashed, or kept if none is given
StoredAccount(store, a) ==
    [id |-> a.id, username |-> a.username, isAdmin |-> a.isAdmin,
     password |-> IF a.rawPassword = "" /\ a.id \in DOMAIN store
                  THEN store[a.id].password
                  ELSE "hash of " \o a.rawPassword]

\* a call returns err: with "" the file has what the store has; after a
\* failed save the store has the change or not
UserCallReturns(call, arg, err, changed, kept) ==
    /\ ucalls' = ucalls + 1
    /\ ulast' = [op |-> call, arg |-> arg,
                 err |-> IF err = "" /\ apath = "" THEN "could not save" ELSE err]
    /\ IF err # "" THEN UNCHANGED <<accounts, usersFile>>
       ELSE IF apath = ""
            THEN /\ accounts' = IF kept THEN changed ELSE accounts
                 /\ UNCHANGED usersFile
       ELSE /\ accounts' = changed
            /\ usersFile' = changed
    /\ UNCHANGED <<othersUsers, apath>>

\* a.UserSet(Account{ID, Username, RawPassword, IsAdmin})
UserSet(a, kept) ==
    /\ ucalls < MaxUserCalls
    /\ UserCallReturns("UserSet", a, UserSetError(accounts, a),
                       MapPut(accounts, a.id, StoredAccount(accounts, a)), kept)

\* a.UserDelete(id)
UserDelete(id, kept) ==
    /\ ucalls < MaxUserCalls
    /\ UserCallReturns("UserDelete", id,
                       IF id \in DOMAIN accounts THEN "" ELSE "user does not exist",
                       MapDelete(accounts, id), kept)

\* what a failed save can leave of the change in the store
Kept == IF apath = "" THEN BOOLEAN ELSE {FALSE}

NextUsers ==
    \/ ClearPath
    \/ \E a \in Accounts, kept \in Kept : UserSet(a, kept)
    \/ \E id \in UserIds, kept \in Kept : UserDelete(id, kept)

SpecUsers == Init /\ [][NextUsers]_vars

(***************************************************************************)
(* C22: UserSet returns an error and changes nothing for an account with   *)
(* an empty id, an empty username, or a new id and no password; otherwise, *)
(* the save working, it returns no error and stores the account, so that   *)
(* the lookup by its username finds that id and isAdmin flag (an existing  *)
(* id also with an empty password).  UserDelete returns an error for an    *)
(* unknown id and otherwise removes the user.  When the save fails both    *)
(* return an error.                                                        *)
(***************************************************************************)
C22_Refused(a) ==
    \/ a.id = ""
    \/ a.username = ""
    \/ a.id \notin DOMAIN accounts /\ a.rawPassword = ""

C22_Set(a) ==
    IF C22_Refused(a)
    THEN ulast'.err # "" /\ accounts' = accounts /\ usersFile' = usersFile
    ELSE IF apath = "" THEN ulast'.err # ""
    ELSE /\ ulast'.err = ""
         /\ a.id \in DOMAIN accounts'
         /\ accounts'[a.id].username = a.username
         /\ accounts'[a.id].isAdmin = a.isAdmin
         /\ accounts'[a.id] \in UserByName(accounts', a.username)
         /\ (\A i \in DOMAIN accounts \ {a.id} : accounts[i].username # a.username)
                => UserByName(accounts', a.username) = {accounts'[a.id]}
         /\ \A i \in DOMAIN accounts \ {a.id} :
                i \in DOMAIN accounts' /\ accounts'[i] = accounts[i]
         /\ usersFile' = accounts'

C22_Delete(id) ==
    IF id \notin DOMAIN accounts
    THEN ulast'.err # "" /\ accounts' = accounts /\ usersFile' = usersFile
    ELSE IF apath = "" THEN ulast'.err # ""
    ELSE /\ ulast'.err = ""
         /\ id \notin DOMAIN accounts'
         /\ \A i \in DOMAIN accounts \ {id} :
                i \in DOMAIN accounts' /\ accounts'[i] = accounts[i]
         /\ usersFile' = accounts'

C22_Step ==
    ucalls' # ucalls =>
        CASE ulast'.op = "UserSet" -> C22_Set(ulast'.arg)
          [] ulast'.op = "UserDelete" -> C22_Delete(ulast'.arg)
          [] OTHER -> FALSE

C22_UserStore == [][C22_Step]_vars

\* user "1" was set with no password and is no longer an admin, then user
\* "2" was deleted
C22_Witness ==
    /\ ucalls = 2
    /\ ulast.op = "UserDelete"
    /\ ulast.err = ""
    /\ DOMAIN accounts = {"1"}
    /\ accounts["1"].username = "admin"
    /\ ~accounts["1"].isAdmin
    /\ accounts["1"].password = "pass1"
    /\ usersFile = accounts

(***************************************************************************)
(* C33: at most one of the hooks main and sub starts the bridge of a       *)
(* monitor.  main acts only with doodsEnable "true" and the sub input      *)
(* disabled, sub only with doodsEnable "true" and the sub input enabled.   *)
(* With doodsEnable not "true" no hook appends to the args or starts       *)
(* anything; with "true", once both hooks were called, one of them has     *)
(* appended the fragment of genArgs, once.                                 *)
(***************************************************************************)
C33_Acted(m, h) == bargs[m][h] > 0

C33_Appended(m) == bargs[m]["main"] + bargs[m]["sub"]

C33_OneHookStarts ==
    \A m \in Monitors :
        /\ C33_Appended(m) <= 1
        /\ bgo[m] <= 1 /\ bwg[m] = bgo[m]
        /\ \A h \in ProcessHooks :
               bpc[m][h] \notin {"idle", "returned"} \/ berr[m][h] # ""
                   => C33_Acted(m, h)
        /\ C33_Acted(m, "main") =>
               bconf[m].doodsEnable = "true" /\ ~bconf[m].subInputEnabled
        /\ C33_Acted(m, "sub") =>
               bconf[m].doodsEnable = "true" /\ bconf[m].subInputEnabled
        /\ bconf[m].doodsEnable # "true" => C33_Appended(m) = 0 /\ bgo[m] = 0
        /\ (\A h \in ProcessHooks : bpc[m][h] # "idle") =>
               C33_Appended(m) = (IF bconf[m].doodsEnable = "true" THEN 1 ELSE 0)

\* with the sub input enabled both hooks have returned: sub has appended the
\* fragment and started the bridge, main has done nothing
C33_Witness ==
    /\ bconf["m1"] = [GoodConfig EXCEPT !.subInputEnabled = TRUE]
    /\ bpc["m1"] = [h \in ProcessHooks |-> "returned"]
    /\ bargs["m1"] = [h \in ProcessHooks |-> IF h = "sub" THEN 1 ELSE 0]
    /\ bgo["m1"] = 1
    /\ berr["m1"] = [h \in ProcessHooks |-> ""]

====
